---- MODULE Spec2Model ----
(***************************************************************************)
(* USB-Util: device inventory and device <-> COM port correlation.         *)
(*                                                                         *)
(* Text is modelled as a sequence of one-character strings, so that        *)
(* trimming, case folding, prefix removal, zero padding and joining are    *)
(* computed character by character as the Python code computes them.       *)
(* An optional integer (bus, address, rssi) is the empty sequence for None *)
(* and a one-element sequence otherwise.  A dynamically typed value        *)
(* (None / int / str) is a record [t, i, s].                               *)
(***************************************************************************)
EXTENDS Integers, Sequences, FiniteSets, TLC

VARIABLES
    hexArg, hexOnce, hexTwice, hexPc,    \* _normalize_hex applied once and twice
    snapA, snapB, idA, idB, idPc,        \* identity() of a snapshot and of a sibling
    mSnap, mPorts, mRet, mPc,            \* _match_com_port(snapshot, ports)
    scEnv, scCall, scRet, scPc,          \* UsbScanner: the host observed, the call, its result
    svPlatform, svBleModule,             \* UsbSnapshotService: the installation,
    svStore,                             \*   the persisted store,
    svWorld, svCall, svRet, svPc         \*   the host observed by a call, the call, its result

hexVars == <<hexArg, hexOnce, hexTwice, hexPc>>

idVars == <<snapA, snapB, idA, idB, idPc>>

matchVars == <<mSnap, mPorts, mRet, mPc>>

scanVars == <<scEnv, scCall, scRet, scPc>>

svcVars == <<svPlatform, svBleModule, svStore, svWorld, svCall, svRet, svPc>>

vars == <<hexArg, hexOnce, hexTwice, hexPc, snapA, snapB, idA, idB, idPc,
          mSnap, mPorts, mRet, mPc, scEnv, scCall, scRet, scPc,
          svPlatform, svBleModule, svStore, svWorld, svCall, svRet, svPc>>

-----------------------------------------------------------------------------
(* Bounds of the model *)

MaxHexLen == 3

MaxSerialLen == 2

MaxPathLen == 2

MaxPorts == 2

MaxDevices == 2

\* the largest number of interfaces of a device whose classes are read
MaxInterfaces == 2

-----------------------------------------------------------------------------
(* Python values and string primitives *)

NoneVal == [t |-> "none", i |-> 0, s |-> <<>>]
IntVal(n) == [t |-> "int", i |-> n, s |-> <<>>]
StrVal(text) == [t |-> "str", i |-> 0, s |-> text]

\* The four characters of the "value unavailable" marker of the source.
Unavailable == <<"u53D6", "u5F97", "u4E0D", "u53EF">>

RECURSIVE LStrip(_)
LStrip(text) ==
    IF text # <<>> /\ Head(text) = " " THEN LStrip(Tail(text)) ELSE text

RECURSIVE RStrip(_)
RStrip(text) ==
    IF text # <<>> /\ text[Len(text)] = " "
    THEN RStrip(SubSeq(text, 1, Len(text) - 1))
    ELSE text

Strip(text) == RStrip(LStrip(text))

LowerLetters ==
    <<"a", "b", "c", "d", "e", "f", "g", "h", "i", "j", "k", "l", "m",
      "n", "o", "p", "q", "r", "s", "t", "u", "v", "w", "x", "y", "z">>

UpperLetters ==
    <<"A", "B", "C", "D", "E", "F", "G", "H", "I", "J", "K", "L", "M",
      "N", "O", "P", "Q", "R", "S", "T", "U", "V", "W", "X", "Y", "Z">>

\* str.lower / str.upper, one character at a time
ToLower == [c \in {UpperLetters[k] : k \in 1..26} |->
                LowerLetters[CHOOSE k \in 1..26 : UpperLetters[k] = c]]

ToUpper == [c \in {LowerLetters[k] : k \in 1..26} |->
                UpperLetters[CHOOSE k \in 1..26 : LowerLetters[k] = c]]

LowerChar(c) == IF c \in DOMAIN ToLower THEN ToLower[c] ELSE c

UpperChar(c) == IF c \in DOMAIN ToUpper THEN ToUpper[c] ELSE c

Lower(text) == [k \in 1..Len(text) |-> LowerChar(text[k])]

Upper(text) == [k \in 1..Len(text) |-> UpperChar(text[k])]

StartsWith(text, prefix) ==
    Len(text) >= Len(prefix) /\ SubSeq(text, 1, Len(prefix)) = prefix

DropPrefix(text, n) == SubSeq(text, n + 1, Len(text))

Zeros(n) == [k \in 1..n |-> "0"]

\* str.zfill: left-pad with zeros to the width, after a leading sign if any.
Zfill(text, width) ==
    IF Len(text) >= width THEN text
    ELSE IF text # <<>> /\ Head(text) \in {"+", "-"}
         THEN <<Head(text)>> \o Zeros(width - Len(text)) \o Tail(text)
         ELSE Zeros(width - Len(text)) \o text

HexDigit(n) ==
    <<"0", "1", "2", "3", "4", "5", "6", "7", "8", "9",
      "a", "b", "c", "d", "e", "f">>[n + 1]

RECURSIVE HexDigits(_)
HexDigits(n) ==
    IF n < 16 THEN <<HexDigit(n)>>
    ELSE HexDigits(n \div 16) \o <<HexDigit(n % 16)>>

\* format(value, "04x") for a non-negative integer
Format04x(n) == Zfill(HexDigits(n), 4)

\* hex(value) for a non-negative integer
Hex(n) == <<"0", "x">> \o HexDigits(n)

\* int(text, 16) for a text of hexadecimal digits
HexCharValue(c) ==
    CASE c = "0" -> 0 [] c = "1" -> 1 [] c = "2" -> 2 [] c = "3" -> 3 [] c = "4" -> 4
      [] c = "5" -> 5 [] c = "6" -> 6 [] c = "7" -> 7 [] c = "8" -> 8 [] c = "9" -> 9
      [] c \in {"a", "A"} -> 10 [] c \in {"b", "B"} -> 11 [] c \in {"c", "C"} -> 12
      [] c \in {"d", "D"} -> 13 [] c \in {"e", "E"} -> 14 [] c \in {"f", "F"} -> 15

RECURSIVE HexValue(_)
HexValue(text) ==
    IF text = <<>> THEN 0
    ELSE 16 * HexValue(SubSeq(text, 1, Len(text) - 1)) + HexCharValue(text[Len(text)])

DecDigit(n) == <<"0", "1", "2", "3", "4", "5", "6", "7", "8", "9">>[n + 1]

RECURSIVE DecDigits(_)
DecDigits(n) ==
    IF n < 10 THEN <<DecDigit(n)>>
    ELSE DecDigits(n \div 10) \o <<DecDigit(n % 10)>>

\* str(n) for an integer
IntStr(n) == IF n < 0 THEN <<"-">> \o DecDigits(0 - n) ELSE DecDigits(n)

RECURSIVE Join(_, _)
Join(parts, sep) ==
    IF parts = <<>> THEN <<>>
    ELSE IF Len(parts) = 1 THEN parts[1]
    ELSE parts[1] \o sep \o Join(Tail(parts), sep)

\* All sequences over alphabet of length at most n
RECURSIVE SeqsUpTo(_, _)
SeqsUpTo(alphabet, n) ==
    IF n = 0 THEN {<<>>}
    ELSE LET shorter == SeqsUpTo(alphabet, n - 1)
         IN  shorter \cup {Append(w, c) : w \in shorter, c \in alphabet}

-----------------------------------------------------------------------------
(* Identifier normalization: core/device_models.py *)

_normalize_hex(value) ==
    IF value.t = "none" THEN <<>>
    ELSE IF value.t = "int" THEN Format04x(value.i)
    ELSE LET text == Lower(Strip(value.s))
         IN  Zfill(IF StartsWith(text, <<"0", "x">>) THEN DropPrefix(text, 2) ELSE text, 4)

_normalize_serial(value) ==
    IF value.t = "none" THEN <<>>
    ELSE LET text == Upper(Strip(IF value.t = "int" THEN IntStr(value.i) ELSE value.s))
         IN  IF text \in {<<>>, Unavailable, <<"-">>} THEN <<>> ELSE text

-----------------------------------------------------------------------------
(* The snapshot data model: core/device_models.py *)

\* UsbDeviceSnapshot(vid, pid) with every other field at its default
UsbDeviceSnapshot(vid, pid) ==
    [ vid |-> vid, pid |-> pid, device_type |-> "usb",
      manufacturer |-> StrVal(<<>>), product |-> StrVal(<<>>), serial |-> StrVal(<<>>),
      bus |-> <<>>, address |-> <<>>, port_path |-> <<>>,
      class_guess |-> <<"-">>, error |-> <<>>,
      topology_chain |-> <<>>, location_information |-> <<>>,
      location_fallback |-> <<>>, usb_controllers |-> <<>>,
      ble_address |-> <<>>, ble_name |-> <<>>, ble_rssi |-> <<>> ]

Sep == <<" ", "|", " ">>

\* Mutant: the port path takes priority over the serial.
identity_PortFirst(self) ==
    IF self.device_type = "ble"
    THEN LET parts ==
                 (IF self.ble_address # <<>> THEN <<<<"A", "D", "D", "R", ":">> \o self.ble_address>> ELSE <<>>)
              \o (IF self.ble_name # <<>> THEN <<<<"N", "A", "M", "E", ":">> \o self.ble_name>> ELSE <<>>)
              \o (IF self.ble_rssi # <<>> THEN <<<<"R", "S", "S", "I", ":">> \o IntStr(self.ble_rssi[1])>> ELSE <<>>)
         IN  Join(IF parts = <<>> THEN <<<<"U", "N", "I", "D", "E", "N", "T", "I", "F", "I", "E", "D">>>> ELSE parts, Sep)
    ELSE LET serial == IF self.serial.t = "str" THEN Strip(self.serial.s) ELSE <<>>
             first ==
                 IF self.port_path # <<>>
                 THEN <<<<"P", "O", "R", "T", ":">>
                          \o Join([k \in 1..Len(self.port_path) |-> IntStr(self.port_path[k])], <<"-">>)>>
                 ELSE IF serial # <<>> /\ serial \notin {Unavailable, <<"-">>}
                 THEN <<<<"S", "E", "R", ":">> \o serial>>
                 ELSE <<>>
             parts ==
                 first
              \o (IF self.bus # <<>> THEN <<<<"B", "U", "S", ":">> \o IntStr(self.bus[1])>> ELSE <<>>)
              \o (IF self.address # <<>> THEN <<<<"A", "D", "D", "R", ":">> \o IntStr(self.address[1])>> ELSE <<>>)
         IN  Join((IF parts = <<>> THEN <<<<"U", "N", "I", "D", "E", "N", "T", "I", "F", "I", "E", "D">>>> ELSE parts)
                    \o <<<<"V", "I", "D", "P", "I", "D", ":">> \o self.vid \o <<":">> \o self.pid>>, Sep)

\* Mutant: a bus or address of 0 is taken for an absent one.
identity_ZeroIsAbsent(self) ==
    IF self.device_type = "ble"
    THEN LET parts ==
                 (IF self.ble_address # <<>> THEN <<<<"A", "D", "D", "R", ":">> \o self.ble_address>> ELSE <<>>)
              \o (IF self.ble_name # <<>> THEN <<<<"N", "A", "M", "E", ":">> \o self.ble_name>> ELSE <<>>)
              \o (IF self.ble_rssi # <<>> THEN <<<<"R", "S", "S", "I", ":">> \o IntStr(self.ble_rssi[1])>> ELSE <<>>)
         IN  Join(IF parts = <<>> THEN <<<<"U", "N", "I", "D", "E", "N", "T", "I", "F", "I", "E", "D">>>> ELSE parts, Sep)
    ELSE LET serial == IF self.serial.t = "str" THEN Strip(self.serial.s) ELSE <<>>
             first ==
                 IF serial # <<>> /\ serial \notin {Unavailable, <<"-">>}
                 THEN <<<<"S", "E", "R", ":">> \o serial>>
                 ELSE IF self.port_path # <<>>
                 THEN <<<<"P", "O", "R", "T", ":">>
                          \o Join([k \in 1..Len(self.port_path) |-> IntStr(self.port_path[k])], <<"-">>)>>
                 ELSE <<>>
             parts ==
                 first
              \o (IF self.bus # <<>> /\ self.bus[1] # 0 THEN <<<<"B", "U", "S", ":">> \o IntStr(self.bus[1])>> ELSE <<>>)
              \o (IF self.address # <<>> /\ self.address[1] # 0 THEN <<<<"A", "D", "D", "R", ":">> \o IntStr(self.address[1])>> ELSE <<>>)
         IN  Join((IF parts = <<>> THEN <<<<"U", "N", "I", "D", "E", "N", "T", "I", "F", "I", "E", "D">>>> ELSE parts)
                    \o <<<<"V", "I", "D", "P", "I", "D", ":">> \o self.vid \o <<":">> \o self.pid>>, Sep)

\* UsbDeviceSnapshot.identity
identity(self) ==
    IF self.device_type = "ble"
    THEN LET parts ==
                 (IF self.ble_address # <<>> THEN <<<<"A", "D", "D", "R", ":">> \o self.ble_address>> ELSE <<>>)
              \o (IF self.ble_name # <<>> THEN <<<<"N", "A", "M", "E", ":">> \o self.ble_name>> ELSE <<>>)
              \o (IF self.ble_rssi # <<>> THEN <<<<"R", "S", "S", "I", ":">> \o IntStr(self.ble_rssi[1])>> ELSE <<>>)
         IN  Join(IF parts = <<>> THEN <<<<"U", "N", "I", "D", "E", "N", "T", "I", "F", "I", "E", "D">>>> ELSE parts, Sep)
    ELSE LET serial == IF self.serial.t = "str" THEN Strip(self.serial.s) ELSE <<>>
             first ==
                 IF serial # <<>> /\ serial \notin {Unavailable, <<"-">>}
                 THEN <<<<"S", "E", "R", ":">> \o serial>>
                 ELSE IF self.port_path # <<>>
                 THEN <<<<"P", "O", "R", "T", ":">>
                          \o Join([k \in 1..Len(self.port_path) |-> IntStr(self.port_path[k])], <<"-">>)>>
                 ELSE <<>>
             parts ==
                 first
              \o (IF self.bus # <<>> THEN <<<<"B", "U", "S", ":">> \o IntStr(self.bus[1])>> ELSE <<>>)
              \o (IF self.address # <<>> THEN <<<<"A", "D", "D", "R", ":">> \o IntStr(self.address[1])>> ELSE <<>>)
         IN  Join((IF parts = <<>> THEN <<<<"U", "N", "I", "D", "E", "N", "T", "I", "F", "I", "E", "D">>>> ELSE parts)
                    \o <<<<"V", "I", "D", "P", "I", "D", ":">> \o self.vid \o <<":">> \o self.pid>>, Sep)

-----------------------------------------------------------------------------
(* Matching a snapshot against the live COM ports: core/device_models.py   *)

\* A COM port record as ComPortManager.get_com_ports builds it.
ComPort(device, vid, pid, serial_number) ==
    [device |-> device, vid |-> vid, pid |-> pid, serial_number |-> serial_number]

\* Mutant: a port whose serial is unknown is accepted for any snapshot serial.
RECURSIVE _match_com_port_UnknownSerialMatches(_, _)
_match_com_port_UnknownSerialMatches(snapshot, ports) ==
    IF ports = <<>> THEN NoneVal
    ELSE LET port == Head(ports)
         IN  IF /\ _normalize_hex(port.vid) = _normalize_hex(StrVal(snapshot.vid))
                /\ _normalize_hex(port.pid) = _normalize_hex(StrVal(snapshot.pid))
             THEN LET serial == _normalize_serial(snapshot.serial)
                      port_serial == _normalize_serial(port.serial_number)
                  IN  IF serial # <<>> /\ port_serial # <<>> /\ serial # port_serial
                      THEN _match_com_port_UnknownSerialMatches(snapshot, Tail(ports))
                      ELSE port.device
             ELSE _match_com_port_UnknownSerialMatches(snapshot, Tail(ports))

\* UsbSnapshotService._match_com_port
RECURSIVE _match_com_port(_, _)
_match_com_port(snapshot, ports) ==
    IF ports = <<>> THEN NoneVal
    ELSE LET port == Head(ports)
         IN  IF /\ _normalize_hex(port.vid) = _normalize_hex(StrVal(snapshot.vid))
                /\ _normalize_hex(port.pid) = _normalize_hex(StrVal(snapshot.pid))
             THEN LET serial == _normalize_serial(snapshot.serial)
                      port_serial == _normalize_serial(port.serial_number)
                  IN  IF serial # <<>> /\ serial # port_serial
                      THEN _match_com_port(snapshot, Tail(ports))
                      ELSE port.device
             ELSE _match_com_port(snapshot, Tail(ports))

-----------------------------------------------------------------------------
(* UsbScanner: core/scanners.py                                            *)
(*                                                                         *)
(* The host is [platform, fault, attached]: attached is the list of things *)
(* plugged in, each seen as a Win32_PnPEntity record on the management-    *)
(* instrumentation path and, when it is a USB device, as a PyUSB device on *)
(* the descriptor path.  fault names the step of the scan that fails.      *)
(* A call's outcome is [raised, snapshots, error].  A message is a sequence *)
(* of message pieces, each piece standing for one of the program's literal *)
(* messages; <<>> is None.                                                 *)

IsHexChar(c) ==
    c \in {"0", "1", "2", "3", "4", "5", "6", "7", "8", "9",
           "a", "b", "c", "d", "e", "f", "A", "B", "C", "D", "E", "F"}

MatchAt(text, i, literal) ==
    /\ i + Len(literal) - 1 <= Len(text)
    /\ \A k \in 1..Len(literal) : text[i + k - 1] = literal[k]

Hex4At(text, i) ==
    /\ i + 3 <= Len(text)
    /\ \A k \in i..(i + 3) : IsHexChar(text[k])

SetMin(S) == CHOOSE x \in S : \A y \in S : x <= y

SetMax(S) == CHOOSE x \in S : \A y \in S : x >= y

\* re.search(r"VID_([0-9A-Fa-f]{4}).*PID_([0-9A-Fa-f]{4})", id): the leftmost
\* VID_ group that some PID_ group follows, and (greedy .*) the last PID_ group
_parse_vid_pid(pnp_device_id) ==
    LET Groups(i, j) ==
            << Upper(SubSeq(pnp_device_id, i + 4, i + 7)),
               Upper(SubSeq(pnp_device_id, j + 4, j + 7)) >>
        Found(vidAt, pidAt) ==
            IF vidAt = {} \/ pidAt = {} THEN << <<>>, <<>> >>
            ELSE IF SetMin(vidAt) + 8 > SetMax(pidAt) THEN << <<>>, <<>> >>
            ELSE Groups(SetMin(vidAt), SetMax(pidAt))
    IN  Found({i \in 1..Len(pnp_device_id) :
                    MatchAt(pnp_device_id, i, <<"V", "I", "D", "_">>) /\ Hex4At(pnp_device_id, i + 4)},
              {j \in 1..Len(pnp_device_id) :
                    MatchAt(pnp_device_id, j, <<"P", "I", "D", "_">>) /\ Hex4At(pnp_device_id, j + 4)})

\* re.split(r"[\\#]", id)[-1].upper()
_parse_serial_from_pnpid(pnp_device_id) ==
    LET seps == {k \in 1..Len(pnp_device_id) : pnp_device_id[k] \in {"\\", "#"}}
    IN  IF pnp_device_id = <<>> THEN <<>>
        ELSE IF seps = {} THEN Upper(pnp_device_id)
        ELSE Upper(SubSeq(pnp_device_id, SetMax(seps) + 1, Len(pnp_device_id)))

\* getattr(obj, attr, ""): None gives "", otherwise str(value).strip()
_safe_wmi_attr(value) ==
    IF value.t = "none" THEN <<>>
    ELSE IF value.t = "int" THEN IntStr(value.i)
    ELSE Strip(value.s)

\* "x or y" on texts
OrText(a, b) == IF a # <<>> THEN a ELSE b

\* Mutant: the error placeholder carries the unavailable marker as its serial.
_error_snapshot_WithSerial(message) ==
    [UsbDeviceSnapshot(<<"-">>, <<"-">>) EXCEPT !.error = message, !.serial = StrVal(Unavailable)]

\* UsbScanner._error_snapshot
_error_snapshot(message) ==
    [UsbDeviceSnapshot(<<"-">>, <<"-">>) EXCEPT
        !.manufacturer = StrVal(<<>>), !.product = StrVal(<<>>), !.error = message]

Returned(snapshots, error) == [raised |-> FALSE, snapshots |-> snapshots, error |-> error]

Raised == [raised |-> TRUE, snapshots |-> <<>>, error |-> <<>>]

\* Mutant: the identifiers are stored as parsed, without lower-casing.
WindowsSnapshot_NoLower(dev, device_id, vid, pid) ==
    [UsbDeviceSnapshot(<<"0", "x">> \o vid, <<"0", "x">> \o pid) EXCEPT
        !.manufacturer = StrVal(OrText(_safe_wmi_attr(dev.Manufacturer), Unavailable)),
        !.product = StrVal(OrText(_safe_wmi_attr(dev.Name),
                                  OrText(_safe_wmi_attr(dev.Caption), Unavailable))),
        !.serial = StrVal(_parse_serial_from_pnpid(device_id)),
        !.class_guess = OrText(_safe_wmi_attr(dev.PNPClass),
                               OrText(_safe_wmi_attr(dev.ClassGuid), <<"-">>)),
        !.location_information = _safe_wmi_attr(dev.LocationInformation)]

\* the snapshot _scan_windows builds for one qualifying entity
WindowsSnapshot(dev, device_id, vid, pid) ==
    [UsbDeviceSnapshot(<<"0", "x">> \o Lower(vid), <<"0", "x">> \o Lower(pid)) EXCEPT
        !.manufacturer = StrVal(OrText(_safe_wmi_attr(dev.Manufacturer), Unavailable)),
        !.product = StrVal(OrText(_safe_wmi_attr(dev.Name),
                                  OrText(_safe_wmi_attr(dev.Caption), Unavailable))),
        !.serial = StrVal(_parse_serial_from_pnpid(device_id)),
        !.class_guess = OrText(_safe_wmi_attr(dev.PNPClass),
                               OrText(_safe_wmi_attr(dev.ClassGuid), <<"-">>)),
        !.location_information = _safe_wmi_attr(dev.LocationInformation)]

\* the loop of _scan_windows over the entity records
RECURSIVE WindowsSnapshots(_)
WindowsSnapshots(devices) ==
    IF devices = <<>> THEN <<>>
    ELSE LET dev == Head(devices)
             device_id == IF dev.DeviceID.t = "str" THEN dev.DeviceID.s ELSE <<>>
             parsed == _parse_vid_pid(device_id)
         IN  IF ~StartsWith(device_id, <<"U", "S", "B", "\\">>) THEN WindowsSnapshots(Tail(devices))
             ELSE IF parsed[1] = <<>> \/ parsed[2] = <<>> THEN WindowsSnapshots(Tail(devices))
             ELSE <<WindowsSnapshot(dev, device_id, parsed[1], parsed[2])>>
                    \o WindowsSnapshots(Tail(devices))

\* Mutant: an enumeration without qualifying record gives no diagnostic.
_scan_windows_SilentWhenEmpty(host) ==
    LET Result(snapshots) ==
            IF snapshots = <<>>
            THEN Returned(<<>>, <<>>)
            ELSE Returned(snapshots, <<>>)
    IN  IF host.fault = "import_wmi"
        THEN Returned(<<_error_snapshot(<<"wmi package required">>)>>, <<"wmi package required">>)
        ELSE IF host.fault = "wmi_init"
        THEN Returned(<<_error_snapshot(<<"WMI initialisation failed">>)>>, <<"WMI initialisation failed">>)
        ELSE IF host.fault = "pnp_query"
        THEN Returned(<<_error_snapshot(<<"WMI device query failed">>)>>, <<"WMI device query failed">>)
        ELSE Result(WindowsSnapshots([k \in 1..Len(host.attached) |-> host.attached[k].entity]))

\* UsbScanner._scan_windows
_scan_windows(host) ==
    LET Result(snapshots) ==
            IF snapshots = <<>>
            THEN Returned(<<>>, <<"no USB device information via WMI">>)
            ELSE Returned(snapshots, <<>>)
    IN  IF host.fault = "import_wmi"
        THEN Returned(<<_error_snapshot(<<"wmi package required">>)>>, <<"wmi package required">>)
        ELSE IF host.fault = "wmi_init"
        THEN Returned(<<_error_snapshot(<<"WMI initialisation failed">>)>>, <<"WMI initialisation failed">>)
        ELSE IF host.fault = "pnp_query"
        THEN Returned(<<_error_snapshot(<<"WMI device query failed">>)>>, <<"WMI device query failed">>)
        ELSE Result(WindowsSnapshots([k \in 1..Len(host.attached) |-> host.attached[k].entity]))

\* UsbScanner._safe_get: the attribute, or the unavailable marker
_safe_get(value) == IF value.t = "none" THEN StrVal(Unavailable) ELSE value

\* UsbScanner._safe_str: usb.util.get_string gives None or a text, and the
\* unavailable marker when reading the string descriptor fails
_safe_str(device, value) == IF device.strings_readable THEN value ELSE StrVal(Unavailable)

\* UsbScanner._class_name for an integer class code
_class_name(value) ==
    IF value = 2 THEN <<"C", "D", "C", "-", "A", "C", "M">>
    ELSE IF value = 3 THEN <<"H", "I", "D">>
    ELSE IF value = 254 THEN <<"U", "S", "B", "T", "M", "C">>
    ELSE IF value = 255 THEN <<"V", "e", "n", "d", "o", "r">>
    ELSE <<"0", "x">> \o Upper(Zfill(HexDigits(value), 2))

\* a read class code that has a label
IsInt(value) == value.t = "int"

\* the class loop of _snapshot_device: one label for each interface whose
\* class could be read, in interface order
ClassList(classes) ==
    LET readable == SelectSeq(classes, IsInt)
    IN  [k \in 1..Len(readable) |-> _class_name(readable[k].i)]

\* the reads of _snapshot_device that no handler guards: stepping to the next
\* configuration or interface (for cfg in device, for intf in cfg) and a
\* device.port_numbers that raises something else than TypeError
SnapshotRaises(device) ==
    device.walk \in {"next_configuration", "next_interface", "port_numbers_missing"}

\* UsbScanner._snapshot_device when it returns: a device's descriptor values
\* are None when they cannot be read; walk "port_numbers_none" is a
\* port_numbers that is neither a list nor callable (both attempts fail)
_snapshot_device(device) ==
    LET Built(vid_val, pid_val, class_list) ==
            [UsbDeviceSnapshot(IF vid_val.t = "int" THEN Hex(vid_val.i) ELSE vid_val.s,
                               IF pid_val.t = "int" THEN Hex(pid_val.i) ELSE pid_val.s) EXCEPT
                !.manufacturer = _safe_str(device, device.manufacturer),
                !.product = _safe_str(device, device.product),
                !.serial = _safe_str(device, device.serial),
                !.bus = device.bus,
                !.address = device.address,
                !.port_path = IF device.walk = "port_numbers_none" THEN <<>> ELSE device.port_numbers,
                !.class_guess = IF class_list # <<>> THEN Join(class_list, <<",">>) ELSE <<"-">>]
    IN  Built(_safe_get(device.idVendor), _safe_get(device.idProduct),
              ClassList(device.interface_classes))

\* the devices PyUSB enumerates: the attached things that are USB devices
RECURSIVE UsbDevicesOf(_)
UsbDevicesOf(attached) ==
    IF attached = <<>> THEN <<>>
    ELSE IF Head(attached).usb THEN <<Head(attached).device>> \o UsbDevicesOf(Tail(attached))
    ELSE UsbDevicesOf(Tail(attached))

\* UsbScanner._scan_pyusb
_scan_pyusb(host) ==
    LET Result(devices) ==
            IF \E k \in 1..Len(devices) : SnapshotRaises(devices[k]) THEN Raised
            ELSE Returned([k \in 1..Len(devices) |-> _snapshot_device(devices[k])], <<>>)
    IN  IF host.fault = "import_usb"
        THEN Returned(<<_error_snapshot(<<"PyUSB not found">>)>>, <<"PyUSB not found">>)
        ELSE IF host.fault = "no_backend"
        THEN Returned(<<_error_snapshot(<<"libusb backend not found">>)>>, <<"libusb backend not found">>)
        ELSE IF host.fault = "usb_error"
        THEN Returned(<<_error_snapshot(<<"USB access failed">>)>>, <<"USB access failed">>)
        ELSE Result(UsbDevicesOf(host.attached))

\* UsbScanner.scan
UsbScanner_scan(host) ==
    IF host.platform = "windows" THEN _scan_windows(host) ELSE _scan_pyusb(host)

\* UsbScanner._normalize_vid_pid
_normalize_vid_pid(value) ==
    IF value.t = "none" THEN <<>>
    ELSE IF value.t = "int" THEN Hex(value.i)
    ELSE LET text == Lower(Strip(value.s))
         IN  IF StartsWith(text, <<"0", "x">>) THEN text
             ELSE IF text # <<>> /\ \A k \in 1..Len(text) : IsHexChar(text[k])
                  THEN Hex(HexValue(text))
                  ELSE text

\* UsbScanner._normalize_vid_token
_normalize_vid_token(value) ==
    LET text == Upper(Strip(IF value.t = "str" THEN value.s ELSE <<>>))
    IN  Zfill(IF StartsWith(text, <<"0", "X">>) THEN DropPrefix(text, 2) ELSE text, 4)

\* UsbScanner._normalize_serial
UsbScanner_normalize_serial(value) ==
    LET text == Upper(IF value.t = "str" THEN Strip(value.s) ELSE <<>>)
    IN  IF text = <<>> \/ text \in {Unavailable, <<"-">>, <<>>} THEN <<>> ELSE text

\* str(x) of a value that is None or a string
StrOf(value) == IF value.t = "none" THEN <<"N", "o", "n", "e">> ELSE value.s

\* the loop of _is_connected_windows
RECURSIVE WindowsConnected(_, _, _, _)
WindowsConnected(devices, target_vid, target_pid, target_serial) ==
    IF devices = <<>> THEN FALSE
    ELSE LET dev == Head(devices)
             device_id == IF dev.DeviceID.t = "str" THEN dev.DeviceID.s ELSE <<>>
             parsed == _parse_vid_pid(device_id)
         IN  IF ~StartsWith(device_id, <<"U", "S", "B", "\\">>)
             THEN WindowsConnected(Tail(devices), target_vid, target_pid, target_serial)
             ELSE IF parsed[1] # target_vid \/ parsed[2] # target_pid
             THEN WindowsConnected(Tail(devices), target_vid, target_pid, target_serial)
             ELSE IF target_serial # <<>> /\ _parse_serial_from_pnpid(device_id) # target_serial
             THEN WindowsConnected(Tail(devices), target_vid, target_pid, target_serial)
             ELSE TRUE

\* UsbScanner._is_connected_windows: [raised, value]
_is_connected_windows(host, vid, pid, serial) ==
    IF host.fault = "import_wmi" THEN [raised |-> FALSE, value |-> FALSE]
    ELSE IF host.fault \in {"wmi_init", "pnp_query"} THEN [raised |-> TRUE, value |-> FALSE]
    ELSE [raised |-> FALSE,
          value |-> WindowsConnected([k \in 1..Len(host.attached) |-> host.attached[k].entity],
                                     _normalize_vid_token(vid), _normalize_vid_token(pid),
                                     UsbScanner_normalize_serial(serial))]

\* the loop of is_usb_device_connected over the PyUSB devices
RECURSIVE PyusbConnected(_, _, _, _)
PyusbConnected(devices, vid, pid, serial) ==
    IF devices = <<>> THEN FALSE
    ELSE LET device == Head(devices)
             dev_vid_str == _normalize_vid_pid(device.idVendor)
             dev_pid_str == _normalize_vid_pid(device.idProduct)
             dev_serial == IF device.strings_readable THEN device.serial ELSE NoneVal
         IN  IF /\ Lower(vid.s) = Lower(dev_vid_str)
                /\ Lower(pid.s) = Lower(dev_pid_str)
                /\ (serial.t = "none" \/ StrOf(serial) = StrOf(dev_serial))
             THEN TRUE
             ELSE PyusbConnected(Tail(devices), vid, pid, serial)

\* UsbScanner.is_usb_device_connected: [raised, value]
is_usb_device_connected(host, vid, pid, serial) ==
    IF host.platform = "windows" THEN _is_connected_windows(host, vid, pid, serial)
    ELSE IF host.fault = "import_usb" THEN [raised |-> FALSE, value |-> FALSE]
    ELSE IF host.fault \in {"no_backend", "usb_error"} THEN [raised |-> TRUE, value |-> FALSE]
    ELSE [raised |-> FALSE, value |-> PyusbConnected(UsbDevicesOf(host.attached), vid, pid, serial)]

-----------------------------------------------------------------------------
(* DeviceScanner and the topology annotation: core/scanners.py             *)
(*                                                                         *)
(* For DeviceScanner the host also has ble ("absent" when the BLE scanner  *)
(* module is not installed, "fails" when its scan raises, "ok" otherwise)  *)
(* and ble_devices, the advertisements a successful scan collects.         *)

\* "x or default" on a value that is None or a text
OrEmpty(value) == IF value.t = "str" THEN value.s ELSE <<>>

\* DeviceScanner._ble_snapshot
_ble_snapshot(device) ==
    [UsbDeviceSnapshot(<<"-">>, <<"-">>) EXCEPT
        !.device_type = "ble",
        !.class_guess = <<"B", "L", "E">>,
        !.ble_address = OrEmpty(device.address),
        !.ble_name = OrEmpty(device.name),
        !.ble_rssi = device.rssi]

\* DeviceScanner._scan_ble
_scan_ble(host) ==
    IF host.ble = "absent" THEN Returned(<<>>, <<"BLE scanner module required">>)
    ELSE IF host.ble = "fails" THEN Returned(<<>>, <<"BLE scan failed">>)
    ELSE Returned([k \in 1..Len(host.ble_devices) |-> _ble_snapshot(host.ble_devices[k])], <<>>)

\* DeviceScanner._combine_errors
_combine_errors(usb_error, ble_error) ==
    IF usb_error # <<>> /\ ble_error # <<>>
    THEN <<"USB: ">> \o usb_error \o <<" / BLE: ">> \o ble_error
    ELSE IF usb_error # <<>> THEN usb_error ELSE ble_error

\* DeviceScanner.scan
DeviceScanner_scan(host) ==
    LET Combined(usb, ble) ==
            IF usb.raised THEN Raised
            ELSE Returned(usb.snapshots \o ble.snapshots, _combine_errors(usb.error, ble.error))
    IN  Combined(UsbScanner_scan(host), _scan_ble(host))

\* _topology_norm: (value or "").strip()
_topology_norm(value) == Strip(OrEmpty(value))

IsDigit(c) == c \in {"0", "1", "2", "3", "4", "5", "6", "7", "8", "9"}

\* the number of consecutive digits of text from position i on
RECURSIVE DigitRun(_, _)
DigitRun(text, i) ==
    IF i <= Len(text) /\ IsDigit(text[i]) THEN 1 + DigitRun(text, i + 1) ELSE 0

\* the length of the Port_#<digits> or Hub_#<digits> token that starts at
\* position i, letter case ignored; 0 when none starts there
TokenLenAt(text, i) ==
    LET MatchNoCase(literal) ==
            /\ i + Len(literal) - 1 <= Len(text)
            /\ \A k \in 1..Len(literal) : LowerChar(text[i + k - 1]) = literal[k]
        Token(prefix, digits) == IF digits > 0 THEN prefix + digits ELSE 0
    IN  IF MatchNoCase(<<"p", "o", "r", "t", "_", "#">>) THEN Token(6, DigitRun(text, i + 6))
        ELSE IF MatchNoCase(<<"h", "u", "b", "_", "#">>) THEN Token(5, DigitRun(text, i + 5))
        ELSE 0

\* PORT_TOKEN_RE.findall(text) from position i on
RECURSIVE FindTokens(_, _)
FindTokens(text, i) ==
    LET From(length) ==
            IF length > 0
            THEN <<SubSeq(text, i, i + length - 1)>> \o FindTokens(text, i + length)
            ELSE FindTokens(text, i + 1)
    IN  IF i > Len(text) THEN <<>> ELSE From(TokenLenAt(text, i))

\* _topology_parse_location_chain
_topology_parse_location_chain(location_info) ==
    IF location_info = <<>> THEN <<>> ELSE FindTokens(location_info, 1)

\* _topology_parse_vid_pid: the same pattern as UsbScanner._parse_vid_pid
_topology_parse_vid_pid(pnp_device_id) == _parse_vid_pid(pnp_device_id)

\* _topology_parse_serial_from_pnpid
_topology_parse_serial_from_pnpid(pnp_device_id) == _parse_serial_from_pnpid(pnp_device_id)

\* _topology_normalize_vid_pid of a snapshot's vid or pid text
_topology_normalize_vid_pid(value) ==
    LET text == Upper(Strip(value))
    IN  Zfill(IF StartsWith(text, <<"0", "X">>) THEN DropPrefix(text, 2) ELSE text, 4)

\* _topology_normalize_serial
_topology_normalize_serial(value) ==
    LET text == Upper(IF value.t = "str" THEN Strip(value.s)
                      ELSE IF value.t = "int" THEN IntStr(value.i) ELSE <<>>)
    IN  IF text = <<>> \/ text \in {Unavailable, <<"-">>} THEN <<>> ELSE text

\* _topology_snapshot_key
_topology_snapshot_key(snapshot, include_serial) ==
    << _topology_normalize_vid_pid(snapshot.vid),
       _topology_normalize_vid_pid(snapshot.pid),
       IF include_serial THEN _topology_normalize_serial(snapshot.serial) ELSE <<>> >>

\* the Win32_USBController records of the host: one named, one without a name
UsbControllers ==
    << [DeviceID |-> "xhci0", Name |-> "xHCI Host Controller"],
       [DeviceID |-> "ehci1", Name |-> ""] >>

\* _TopologyResolver._controller_names
_controller_names ==
    [id \in {UsbControllers[k].DeviceID : k \in 1..Len(UsbControllers)} |->
        LET ctrl == CHOOSE c \in {UsbControllers[k] : k \in 1..Len(UsbControllers)} : c.DeviceID = id
        IN  IF ctrl.Name # "" THEN ctrl.Name ELSE id]

\* mapping[key] = entry
Put(mapping, key, entry) ==
    [k \in (DOMAIN mapping) \cup {key} |-> IF k = key THEN entry ELSE mapping[k]]

\* mapping.setdefault(key, entry)
SetDefault(mapping, key, entry) ==
    IF key \in DOMAIN mapping THEN mapping ELSE Put(mapping, key, entry)

\* the loop of _TopologyResolver.build_mapping over the attached things
RECURSIVE build_mapping(_, _)
build_mapping(attached, mapping) ==
    LET Entry(device_id, location_info, ids) ==
            [pnp_device_id |-> device_id,
             location_information |-> location_info,
             location_fallback |-> <<>>,
             port_hub_chain |-> _topology_parse_location_chain(location_info),
             usb_controllers |->
                [k \in 1..Len(ids) |->
                    IF ids[k] \in DOMAIN _controller_names
                    THEN _controller_names[ids[k]] ELSE ids[k]]]
        Stored(vid, pid, serial, entry) ==
            IF vid = <<>> \/ pid = <<>> THEN mapping
            ELSE SetDefault(Put(mapping, <<vid, pid, serial>>, entry), <<vid, pid, <<>> >>, entry)
        Parsed(device_id, parsed, entry) ==
            Stored(parsed[1], parsed[2], _topology_parse_serial_from_pnpid(device_id), entry)
        Step(thing, device_id) ==
            IF ~StartsWith(device_id, <<"U", "S", "B", "\\">>) THEN mapping
            ELSE Parsed(device_id, _topology_parse_vid_pid(device_id),
                        Entry(device_id, _topology_norm(thing.entity.LocationInformation),
                              thing.controllers))
    IN  IF attached = <<>> THEN mapping
        ELSE build_mapping(Tail(attached),
                           Step(Head(attached), _topology_norm(Head(attached).entity.DeviceID)))

\* Mutant: the entry under (vid, pid, "") is preferred to the exact key.
AnnotateOne_FallbackFirst(snapshot, mapping) ==
    LET Assigned(entry) ==
            [snapshot EXCEPT !.topology_chain = entry.port_hub_chain,
                             !.location_information = entry.location_information,
                             !.location_fallback = entry.location_fallback,
                             !.usb_controllers = entry.usb_controllers]
        Looked(key_with_serial, key_without_serial) ==
            IF key_without_serial \in DOMAIN mapping THEN Assigned(mapping[key_without_serial])
            ELSE IF key_with_serial \in DOMAIN mapping THEN Assigned(mapping[key_with_serial])
            ELSE snapshot
    IN  Looked(_topology_snapshot_key(snapshot, TRUE), _topology_snapshot_key(snapshot, FALSE))

\* the body of the annotation loop for one snapshot
AnnotateOne(snapshot, mapping) ==
    LET Assigned(entry) ==
            [snapshot EXCEPT !.topology_chain = entry.port_hub_chain,
                             !.location_information = entry.location_information,
                             !.location_fallback = entry.location_fallback,
                             !.usb_controllers = entry.usb_controllers]
        Looked(key_with_serial, key_without_serial) ==
            IF key_with_serial \in DOMAIN mapping THEN Assigned(mapping[key_with_serial])
            ELSE IF key_without_serial \in DOMAIN mapping THEN Assigned(mapping[key_without_serial])
            ELSE snapshot
    IN  Looked(_topology_snapshot_key(snapshot, TRUE), _topology_snapshot_key(snapshot, FALSE))

\* annotate_windows_topology(snapshots): the snapshots as it leaves them, or
\* raised when the management session or a query fails (no handler there)
annotate_windows_topology(snapshots, host) ==
    LET Annotated(mapping) ==
            IF DOMAIN mapping = {} THEN Returned(snapshots, <<>>)
            ELSE Returned([k \in 1..Len(snapshots) |-> AnnotateOne(snapshots[k], mapping)], <<>>)
    IN  IF snapshots = <<>> THEN Returned(snapshots, <<>>)
        ELSE IF host.platform # "windows" THEN Returned(snapshots, <<>>)
        ELSE IF host.fault = "import_wmi" THEN Returned(snapshots, <<>>)
        ELSE IF host.fault \in {"wmi_init", "pnp_query"} THEN Raised
        ELSE Annotated(build_mapping(host.attached, <<>>))

-----------------------------------------------------------------------------
(* Hosts.  A thing is something plugged in: its Win32_PnPEntity record,    *)
(* its PyUSB device when it is a USB device, and the controllers it hangs  *)
(* from.  A world is what one call observes: the platform, the fault of    *)
(* the scan if any, the attached things, the BLE outcome, the live serial  *)
(* ports and the fault of the serial port if any.                          *)

Entity(device_id, manufacturer, name, caption, pnp_class, location) ==
    [DeviceID |-> StrVal(device_id), Manufacturer |-> manufacturer, Name |-> name,
     Caption |-> caption, PNPClass |-> pnp_class, ClassGuid |-> NoneVal,
     LocationInformation |-> location]

Device(idVendor, idProduct, serial, readable, bus, address, port_numbers, classes) ==
    [idVendor |-> idVendor, idProduct |-> idProduct,
     manufacturer |-> StrVal(<<"F", "T", "D", "I">>), product |-> NoneVal, serial |-> serial,
     strings_readable |-> readable, bus |-> bus, address |-> address,
     port_numbers |-> port_numbers,
     interface_classes |-> [k \in 1..Len(classes) |-> IntVal(classes[k])],
     walk |-> "ok"]

NoDevice == Device(NoneVal, NoneVal, NoneVal, FALSE, <<>>, <<>>, <<>>, <<>>)

\* an FTDI adapter 0403:6001 without a serial string; the system names its
\* instance 5&1
FtdiPlain ==
    [usb |-> TRUE, vid |-> 1027, pid |-> 24577, instance |-> <<"5", "&", "1">>,
     entity |-> Entity(<<"U", "S", "B", "\\", "V", "I", "D", "_", "0", "4", "0", "3", "&", "P", "I", "D", "_", "6", "0", "0", "1", "\\", "5", "&", "1">>, StrVal(<<"F", "T", "D", "I">>), StrVal(<<"P", "o", "r", "t">>),
                       NoneVal, StrVal(<<"P", "o", "r", "t", "s">>), StrVal(<<"P", "o", "r", "t", "_", "#", "0", "0", "0", "3", ".", "H", "u", "b", "_", "#", "0", "0", "0", "6">>)),
     device |-> Device(IntVal(1027), IntVal(24577), NoneVal, TRUE, <<1>>, <<4>>, <<3>>, <<255>>),
     controllers |-> <<"xhci0">>]

\* the same adapter model with serial A5
FtdiA5 ==
    [usb |-> TRUE, vid |-> 1027, pid |-> 24577, instance |-> <<"A", "5">>,
     entity |-> Entity(<<"U", "S", "B", "\\", "V", "I", "D", "_", "0", "4", "0", "3", "&", "P", "I", "D", "_", "6", "0", "0", "1", "\\", "A", "5">>, StrVal(<<"F", "T", "D", "I">>), StrVal(<<"P", "o", "r", "t">>),
                       NoneVal, StrVal(<<"P", "o", "r", "t", "s">>), NoneVal),
     device |-> Device(IntVal(1027), IntVal(24577), StrVal(<<"A", "5">>), TRUE, <<1>>, <<5>>, <<1, 2>>, <<255, 2>>),
     controllers |-> <<"ehci1">>]

\* a keyboard 0abc:00ef whose instance id is written in lower case and whose
\* string descriptors cannot be read through PyUSB
Keyboard ==
    [usb |-> TRUE, vid |-> 2748, pid |-> 239, instance |-> <<"b", "7">>,
     entity |-> Entity(<<"U", "S", "B", "\\", "V", "I", "D", "_", "0", "a", "b", "c", "&", "P", "I", "D", "_", "0", "0", "E", "F", "\\", "b", "7">>, NoneVal, NoneVal,
                       StrVal(<<" ", "K", "e", "y", "s", " ">>), NoneVal, NoneVal),
     device |-> Device(IntVal(2748), IntVal(239), StrVal(<<"b", "7">>), FALSE, <<2>>, <<1>>, <<>>, <<3>>),
     controllers |-> <<>>]

\* a device whose descriptor fields cannot be read through PyUSB
Opaque ==
    [usb |-> TRUE, vid |-> 4660, pid |-> 22136, instance |-> <<"6", "&", "2">>,
     entity |-> Entity(<<"U", "S", "B", "\\", "V", "I", "D", "_", "1", "2", "3", "4", "&", "P", "I", "D", "_", "5", "6", "7", "8", "&", "M", "I", "_", "0", "0", "\\", "6", "&", "2">>, StrVal(<<"-">>), StrVal(<<"D", "e", "v">>),
                       NoneVal, NoneVal, NoneVal),
     device |-> Device(NoneVal, NoneVal, NoneVal, TRUE, <<>>, <<>>, <<>>, <<>>),
     controllers |-> <<"xhci0", "ehci1">>]

\* a root hub: rooted at USB but without VID/PID tokens
RootHub ==
    [usb |-> FALSE, vid |-> 0, pid |-> 0, instance |-> <<"4", "&", "1">>,
     entity |-> Entity(<<"U", "S", "B", "\\", "R", "O", "O", "T", "_", "H", "U", "B", "3", "0", "\\", "4", "&", "1">>, NoneVal, StrVal(<<"H", "u", "b">>), NoneVal, NoneVal, NoneVal),
     device |-> NoDevice,
     controllers |-> <<>>]

\* a PCI adapter whose id carries VID/PID-like tokens but is not rooted at USB
PciCard ==
    [usb |-> FALSE, vid |-> 0, pid |-> 0, instance |-> <<"3", "&", "0">>,
     entity |-> Entity(<<"P", "C", "I", "\\", "V", "I", "D", "_", "0", "4", "0", "3", "&", "P", "I", "D", "_", "6", "0", "0", "1", "\\", "3", "&", "0">>, NoneVal, StrVal(<<"C", "a", "r", "d">>), NoneVal, NoneVal, NoneVal),
     device |-> NoDevice,
     controllers |-> <<>>]

Things == {FtdiPlain, FtdiA5, Keyboard, Opaque, RootHub, PciCard}

WindowsFaults == {"none", "import_wmi", "wmi_init", "pnp_query"}

PyusbFaults == {"none", "import_usb", "no_backend", "usb_error"}

\* a second adapter 0403:6001 without a serial string
FtdiTwin ==
    [usb |-> TRUE, vid |-> 1027, pid |-> 24577, instance |-> <<"5", "&", "2">>,
     entity |-> Entity(<<"U", "S", "B", "\\", "V", "I", "D", "_", "0", "4", "0", "3", "&", "P", "I", "D", "_", "6", "0", "0", "1", "\\", "5", "&", "2">>, StrVal(<<"F", "T", "D", "I">>), StrVal(<<"P", "o", "r", "t">>),
                       NoneVal, StrVal(<<"P", "o", "r", "t", "s">>), StrVal(<<"P", "o", "r", "t", "_", "#", "0", "0", "0", "4", ".", "H", "u", "b", "_", "#", "0", "0", "0", "6">>)),
     device |-> Device(IntVal(1027), IntVal(24577), NoneVal, TRUE, <<1>>, <<6>>, <<4>>, <<255>>),
     controllers |-> <<"xhci0">>]

\* a record of the same adapter model whose device id ends at the separator:
\* the instance part, and so the parsed serial, is empty
FtdiBare ==
    [usb |-> TRUE, vid |-> 1027, pid |-> 24577, instance |-> <<>>,
     entity |-> Entity(<<"U", "S", "B", "\\", "V", "I", "D", "_", "0", "4", "0", "3", "&", "P", "I", "D", "_", "6", "0", "0", "1", "\\">>, StrVal(<<"F", "T", "D", "I">>), StrVal(<<"P", "o", "r", "t">>),
                       NoneVal, StrVal(<<"P", "o", "r", "t", "s">>), StrVal(<<"P", "o", "r", "t", "_", "#", "0", "0", "0", "9">>)),
     device |-> NoDevice,
     controllers |-> <<>>]

ServiceThings == {FtdiPlain, FtdiTwin, FtdiA5}

\* an advertisement collected by the BLE scan
Beacon == [address |-> StrVal(<<"A", "A", ":", "0", "1">>), name |-> NoneVal, rssi |-> <<60>>]

\* the live serial ports: the adapter without serial and the adapter A5, as
\* pyserial and as the management query report them
LivePorts ==
    { [device |-> <<"t", "t", "y", "0">>, Name |-> <<"P", "o", "r", "t", " ", "(", "C", "O", "M", "3", ")">>,
       vid |-> IntVal(1027), pid |-> IntVal(24577), serial_number |-> NoneVal],
      [device |-> <<"t", "t", "y", "1">>, Name |-> <<"P", "o", "r", "t", " ", "(", "C", "O", "M", "4", ")">>,
       vid |-> IntVal(1027), pid |-> IntVal(24577), serial_number |-> StrVal(<<"A", "5">>)] }

\* sequences of distinct elements of S, of length at most n
DistinctSeqs(S, n) ==
    {w \in SeqsUpTo(S, n) : \A i, j \in 1..Len(w) : i # j => w[i] # w[j]}

LivePortLists == DistinctSeqs(LivePorts, MaxPorts)

AttachedLists == DistinctSeqs(ServiceThings, MaxDevices)

Platforms == {"windows", "posix"}

\* the things met by the calls that exercise the zero-record and the
\* write-failure paths: one adapter and two records that yield no snapshot
RefreshThings == {FtdiA5, RootHub, PciCard}

RefreshLists == DistinctSeqs(RefreshThings, MaxDevices)

\* what a scan can meet on an installation with that platform, with or
\* without the BLE scanner module, the attached things being one of lists
WorldsOf(platform, ble_module, lists) ==
    LET usbSide ==
            {<<"none", a>> : a \in lists}
            \cup {<<f, <<>> >> : f \in (IF platform = "windows" THEN WindowsFaults ELSE PyusbFaults) \ {"none"}}
        bleSide ==
            IF ble_module THEN {<<"ok", <<Beacon>> >>, <<"ok", <<>> >>, <<"fails", <<>> >>}
            ELSE {<<"absent", <<>> >>}
    IN  {[platform |-> platform, fault |-> u[1], attached |-> u[2], ble |-> b[1],
          ble_devices |-> b[2], ports |-> <<>>, serial_fault |-> "none",
          write_fault |-> "none"] :
            u \in usbSide, b \in bleSide}

Worlds(platform, ble_module) == WorldsOf(platform, ble_module, AttachedLists)

AllWorlds ==
    UNION {WorldsOf(platform, ble_module, AttachedLists \cup RefreshLists) :
                platform \in Platforms, ble_module \in BOOLEAN}

-----------------------------------------------------------------------------
(* The repository and the service: core/device_models.py, core/com_ports.py *)
(*                                                                         *)
(* The persisted store is [kind, data]: kind is "missing" when the file    *)
(* does not exist, "unreadable" when it cannot be read or parsed, "json"   *)
(* when it holds the list data of entries.                                 *)

\* to_dict without the serial key
to_dict_WithoutSerial(self) ==
    [ device_type |-> self.device_type,
      vid |-> self.vid,
      pid |-> self.pid,
      manufacturer |-> self.manufacturer,
      product |-> self.product,
      bus |-> self.bus,
      address |-> self.address,
      port_path |-> self.port_path,
      class_guess |-> self.class_guess,
      error |-> self.error,
      topology_chain |-> self.topology_chain,
      location_information |-> self.location_information,
      location_fallback |-> self.location_fallback,
      usb_controllers |-> self.usb_controllers,
      ble_address |-> self.ble_address,
      ble_name |-> self.ble_name,
      ble_rssi |-> self.ble_rssi ]

\* UsbDeviceSnapshot.to_dict
to_dict(self) ==
    [ device_type |-> self.device_type,
      vid |-> self.vid,
      pid |-> self.pid,
      manufacturer |-> self.manufacturer,
      product |-> self.product,
      serial |-> self.serial,
      bus |-> self.bus,
      address |-> self.address,
      port_path |-> self.port_path,
      class_guess |-> self.class_guess,
      error |-> self.error,
      topology_chain |-> self.topology_chain,
      location_information |-> self.location_information,
      location_fallback |-> self.location_fallback,
      usb_controllers |-> self.usb_controllers,
      ble_address |-> self.ble_address,
      ble_name |-> self.ble_name,
      ble_rssi |-> self.ble_rssi ]

\* data.get(key, default)
Get(data, key, default) == IF key \in DOMAIN data THEN data[key] ELSE default

\* UsbDeviceSnapshot.from_dict
from_dict(data) ==
    [ device_type |-> Get(data, "device_type", "usb"),
      vid |-> Get(data, "vid", <<"-">>),
      pid |-> Get(data, "pid", <<"-">>),
      manufacturer |-> Get(data, "manufacturer", StrVal(<<>>)),
      product |-> Get(data, "product", StrVal(<<>>)),
      serial |-> Get(data, "serial", StrVal(<<>>)),
      bus |-> Get(data, "bus", <<>>),
      address |-> Get(data, "address", <<>>),
      port_path |-> Get(data, "port_path", <<>>),
      class_guess |-> Get(data, "class_guess", <<"-">>),
      error |-> Get(data, "error", <<>>),
      topology_chain |-> Get(data, "topology_chain", <<>>),
      location_information |-> Get(data, "location_information", <<>>),
      location_fallback |-> Get(data, "location_fallback", <<>>),
      usb_controllers |-> Get(data, "usb_controllers", <<>>),
      ble_address |-> Get(data, "ble_address", <<>>),
      ble_name |-> Get(data, "ble_name", <<>>),
      ble_rssi |-> Get(data, "ble_rssi", <<>>) ]

\* UsbSnapshotRepository.placeholder
placeholder(message) == [UsbDeviceSnapshot(<<"-">>, <<"-">>) EXCEPT !.error = message]

\* the list is the one placeholder with this message
IsPlaceholder(snapshots, message) == snapshots = <<placeholder(message)>>

\* isinstance(item, dict): a parsed JSON value that is not an object is
\* written [scalar |-> value]
IsDict(item) == "scalar" \notin DOMAIN item

\* UsbSnapshotRepository.load raises: the bytes of the file are not UTF-8
\* (UnicodeDecodeError is neither OSError nor JSONDecodeError), or an entry
\* of the parsed list is not an object (from_dict calls item.get)
load_raises(store) ==
    \/ store.kind = "undecodable"
    \/ /\ store.kind = "json"
       /\ \E k \in 1..Len(store.data) : ~IsDict(store.data[k])

\* UsbSnapshotRepository.load, when it returns.  A file that parses to one
\* object has kind "json_object" and data <<object>>; one that parses to a
\* number, a string, a boolean or null has kind "json_scalar".
load(store) ==
    IF store.kind = "missing" THEN <<placeholder(<<"device information does not exist">>)>>
    ELSE IF store.kind = "unreadable" THEN <<placeholder(<<"failed to read device information">>)>>
    ELSE IF store.kind = "json_scalar" THEN <<placeholder(<<"device information is empty">>)>>
    ELSE IF store.data = <<>> THEN <<placeholder(<<"device information is empty">>)>>
    ELSE [k \in 1..Len(store.data) |-> from_dict(store.data[k])]

\* the JSON text of the list holds characters outside ASCII: the error
\* messages of the program are Japanese and are written as multi-byte UTF-8
\* (ensure_ascii=False)
HasMultiByteText(snapshots) == \E k \in 1..Len(snapshots) : snapshots[k].error # <<>>

\* Mutant: the list is added to what the file held.
save_KeepingEarlier(store, snapshots, write_fault) ==
    IF write_fault = "open" THEN store
    ELSE IF write_fault = "write_split" /\ HasMultiByteText(snapshots)
    THEN [kind |-> "undecodable", data |-> <<>>]
    ELSE IF write_fault \in {"write", "write_split"} THEN [kind |-> "unreadable", data |-> <<>>]
    ELSE [kind |-> "json",
          data |-> (IF store.kind = "json" THEN store.data ELSE <<>>)
                   \o [k \in 1..Len(snapshots) |-> to_dict(snapshots[k])]]

\* UsbSnapshotRepository.save: the file after the call.  write_fault is
\* "open" when the file cannot be opened for writing (the file stays as it
\* was), "write" when the write fails after the file was opened and
\* truncated (the file holds a prefix of the text, which does not parse) and
\* "write_split" when that prefix ends inside a multi-byte character (its
\* bytes are not UTF-8); the OSError is caught.
save(store, snapshots, write_fault) ==
    IF write_fault = "open" THEN store
    ELSE IF write_fault = "write_split" /\ HasMultiByteText(snapshots)
    THEN [kind |-> "undecodable", data |-> <<>>]
    ELSE IF write_fault \in {"write", "write_split"} THEN [kind |-> "unreadable", data |-> <<>>]
    ELSE [kind |-> "json", data |-> [k \in 1..Len(snapshots) |-> to_dict(snapshots[k])]]

IsUsb(snapshot) == snapshot.device_type = "usb"

\* the list after the annotation has updated its USB snapshots in place
RECURSIVE Merge(_, _)
Merge(snapshots, usb_snapshots) ==
    IF snapshots = <<>> THEN <<>>
    ELSE IF IsUsb(Head(snapshots))
    THEN <<Head(usb_snapshots)>> \o Merge(Tail(snapshots), Tail(usb_snapshots))
    ELSE <<Head(snapshots)>> \o Merge(Tail(snapshots), usb_snapshots)

\* UsbSnapshotService.refresh, the annotation step: the USB-type snapshots
\* of the list are handed to annotate_windows_topology
annotate_usb(snapshots, host) ==
    LET Annotated(annotated) ==
            IF annotated.raised THEN Raised
            ELSE Returned(Merge(snapshots, annotated.snapshots), <<>>)
        Filtered(usb_snapshots) ==
            Annotated(IF usb_snapshots # <<>>
                      THEN annotate_windows_topology(usb_snapshots, host)
                      ELSE Returned(usb_snapshots, <<>>))
    IN  Filtered(SelectSeq(snapshots, IsUsb))

\* UsbSnapshotService.refresh up to the save: the scan, the placeholder
\* substitution and the topology annotation; [raised, snapshots, error]
Collect(host) ==
    LET Annotated(scan_error, annotated) ==
            IF annotated.raised THEN Raised
            ELSE Returned(annotated.snapshots, scan_error)
        Substituted(scan_error, snapshots) ==
            Annotated(scan_error, annotate_usb(snapshots, host))
        Scanned(scanned) ==
            IF scanned.raised THEN Raised
            ELSE
            Substituted(scanned.error,
                        IF scanned.snapshots = <<>>
                        THEN <<placeholder(IF scanned.error # <<>> THEN scanned.error
                                           ELSE <<"no USB/BT device found">>)>>
                        ELSE scanned.snapshots)
    IN  Scanned(DeviceScanner_scan(host))

\* Collect reads the platform, the scan fault, the attached things and the
\* BLE outcome of the host only: it is evaluated once for each of them
Collected == [world \in AllWorlds |-> Collect(world)]

\* UsbSnapshotService.refresh: [raised, snapshots, error, store]
refresh(host, store) ==
    LET Saved(collected) ==
            IF collected.raised
            THEN [raised |-> TRUE, snapshots |-> <<>>, error |-> <<>>, store |-> store]
            ELSE [raised |-> FALSE, snapshots |-> collected.snapshots, error |-> collected.error,
                  store |-> save(store, collected.snapshots, host.write_fault)]
    IN  Saved(Collected[[host EXCEPT !.ports = <<>>, !.serial_fault = "none",
                                      !.write_fault = "none"]])

\* the text after the last run of blanks: text.split()[-1]
RECURSIVE LastWord(_)
LastWord(text) ==
    LET t == RStrip(text)
    IN  IF t = <<>> \/ \A k \in 1..Len(t) : t[k] # " " THEN t
        ELSE LastWord(Tail(t))

\* text.replace(c, "")
RECURSIVE Remove(_, _)
Remove(text, c) ==
    IF text = <<>> THEN <<>>
    ELSE IF Head(text) = c THEN Remove(Tail(text), c)
    ELSE <<Head(text)>> \o Remove(Tail(text), c)

\* the loop of get_com_ports over the pyserial ports
RECURSIVE PyserialPorts(_)
PyserialPorts(ports) ==
    IF ports = <<>> THEN <<>>
    ELSE LET port == Head(ports)
         IN  IF port.vid.t # "none" /\ port.pid.t # "none"
             THEN <<ComPort(StrVal(port.device), StrVal(Hex(port.vid.i)), StrVal(Hex(port.pid.i)),
                            port.serial_number)>> \o PyserialPorts(Tail(ports))
             ELSE PyserialPorts(Tail(ports))

\* ComPortManager.get_com_ports
get_com_ports(host) ==
    IF host.platform = "windows"
    THEN [k \in 1..Len(host.ports) |->
            ComPort(IF host.ports[k].Name # <<>>
                    THEN StrVal(Remove(Remove(LastWord(host.ports[k].Name), "("), ")"))
                    ELSE NoneVal,
                    NoneVal, NoneVal, NoneVal)]
    ELSE PyserialPorts(host.ports)

\* Mutant: the serial filter is applied even when no serial is requested.
find_snapshots_AlwaysFilterSerial(host, store, vid, pid, serial, refresh_flag) ==
    LET Keep(snapshot) ==
            /\ snapshot.error = <<>>
            /\ snapshot.device_type = "usb"
            /\ _normalize_hex(StrVal(snapshot.vid)) = _normalize_hex(vid)
            /\ _normalize_hex(StrVal(snapshot.pid)) = _normalize_hex(pid)
            /\ _normalize_serial(snapshot.serial) = _normalize_serial(serial)
        Refreshed(refreshed) ==
            IF refreshed.raised
            THEN [raised |-> TRUE, matches |-> <<>>, store |-> store]
            ELSE [raised |-> FALSE, matches |-> SelectSeq(refreshed.snapshots, Keep),
                  store |-> refreshed.store]
    IN  IF refresh_flag THEN Refreshed(refresh(host, store))
        ELSE IF load_raises(store) THEN [raised |-> TRUE, matches |-> <<>>, store |-> store]
        ELSE [raised |-> FALSE, matches |-> SelectSeq(load(store), Keep), store |-> store]

\* UsbSnapshotService.find_snapshots: [raised, matches, store]
find_snapshots(host, store, vid, pid, serial, refresh_flag) ==
    LET Skip(target_serial, serial_value) ==
            target_serial # <<>> /\ serial_value # target_serial
        Keep(snapshot) ==
            /\ snapshot.error = <<>>
            /\ snapshot.device_type = "usb"
            /\ _normalize_hex(StrVal(snapshot.vid)) = _normalize_hex(vid)
            /\ _normalize_hex(StrVal(snapshot.pid)) = _normalize_hex(pid)
            /\ ~Skip(_normalize_serial(serial), _normalize_serial(snapshot.serial))
        Refreshed(refreshed) ==
            IF refreshed.raised
            THEN [raised |-> TRUE, matches |-> <<>>, store |-> store]
            ELSE [raised |-> FALSE, matches |-> SelectSeq(refreshed.snapshots, Keep),
                  store |-> refreshed.store]
    IN  IF refresh_flag THEN Refreshed(refresh(host, store))
        ELSE IF load_raises(store) THEN [raised |-> TRUE, matches |-> <<>>, store |-> store]
        ELSE [raised |-> FALSE, matches |-> SelectSeq(load(store), Keep), store |-> store]

\* one entry of find_device_connections
Connection(snapshot, ports) ==
    [snapshot |-> snapshot,
     identity |-> identity(snapshot),
     serial |-> snapshot.serial,
     com_port |-> _match_com_port(snapshot, ports),
     port_path |-> snapshot.port_path,
     bus |-> snapshot.bus,
     address |-> snapshot.address]

\* UsbSnapshotService.find_device_connections: [raised, connections, store]
find_device_connections(host, store, vid, pid, serial, refresh_flag) ==
    LET Results(found, snapshots, ports) ==
            [raised |-> found.raised,
             connections |-> [k \in 1..Len(snapshots) |-> Connection(snapshots[k], ports)],
             store |-> found.store]
        Found(found) == Results(found, SelectSeq(found.matches, IsUsb), get_com_ports(host))
    IN  Found(find_snapshots(host, store, vid, pid, serial, refresh_flag))

\* truth of a value that is None or a text
Truthy(value) == value.t = "str" /\ value.s # <<>>

HasPort(entry) == Truthy(entry.com_port)

\* UsbSnapshotService.get_com_port_for_device: [raised, port, store]
get_com_port_for_device(host, store, vid, pid, serial, refresh_flag) ==
    LET First(found, with_port) ==
            [raised |-> found.raised,
             port |-> IF with_port # <<>> THEN with_port[1].com_port ELSE NoneVal,
             store |-> found.store]
        Found(found) == First(found, SelectSeq(found.connections, HasPort))
    IN  Found(find_device_connections(host, store, vid, pid, serial, refresh_flag))

\* the steps of the with-block of send_serial_command, in order: the read
\* is delimiter-terminated when read_until is given, else of fixed length
\* when read_bytes is positive, else absent
SessionSteps(read_bytes, read_until) ==
    <<"open", "reset_input_buffer", "reset_output_buffer", "write", "flush">>
    \o (IF read_until.t # "none" THEN <<"read_until">>
        ELSE IF read_bytes # <<>> /\ read_bytes[1] > 0 THEN <<"read">>
        ELSE <<>>)

\* Mutant: the payload is written before the buffers are discarded.
serial_session_WriteFirst(serial_fault, read_bytes, read_until) ==
    LET Swapped(steps) ==
            [k \in 1..Len(steps) |->
                IF k = 2 THEN "write" ELSE IF k = 3 THEN "reset_input_buffer"
                ELSE IF k = 4 THEN "reset_output_buffer" ELSE steps[k]]
        Ran(steps, failing) ==
            IF failing = {} THEN [failed |-> FALSE, io |-> steps \o <<"close">>]
            ELSE [failed |-> TRUE,
                  io |-> SubSeq(steps, 1, SetMin(failing))
                         \o (IF SetMin(failing) > 1 THEN <<"close">> ELSE <<>>)]
        Steps(steps) ==
            Ran(steps, {k \in 1..Len(steps) :
                            steps[k] = serial_fault \/ (serial_fault = "read" /\ steps[k] = "read_until")})
    IN  Steps(Swapped(SessionSteps(read_bytes, read_until)))

\* the with-block of send_serial_command on the resolved port: the calls
\* made on the transport, the last of them raising SerialException when
\* serial_fault names it; leaving the block closes a port that was opened
serial_session(serial_fault, read_bytes, read_until) ==
    LET Ran(steps, failing) ==
            IF failing = {} THEN [failed |-> FALSE, io |-> steps \o <<"close">>]
            ELSE [failed |-> TRUE,
                  io |-> SubSeq(steps, 1, SetMin(failing))
                         \o (IF SetMin(failing) > 1 THEN <<"close">> ELSE <<>>)]
        Steps(steps) ==
            Ran(steps, {k \in 1..Len(steps) :
                            steps[k] = serial_fault \/ (serial_fault = "read" /\ steps[k] = "read_until")})
    IN  Steps(SessionSteps(read_bytes, read_until))

\* UsbSnapshotService.send_serial_command with its read arguments:
\* [raised, error, port, io, store]; error is the message of the RuntimeError
send_serial_command_with(host, store, vid, pid, serial, refresh_flag, read_bytes, read_until) ==
    LET Fails(found, message, io) ==
            [raised |-> FALSE, error |-> message, port |-> NoneVal, io |-> io, store |-> found.store]
        Sent(found, port_name, session) ==
            IF session.failed
            THEN Fails(found, <<"serial port ">> \o port_name.s \o <<" access failed">>, session.io)
            ELSE [raised |-> FALSE, error |-> <<>>, port |-> port_name,
                  io |-> session.io, store |-> found.store]
        Resolved(found, candidates) ==
            IF found.raised
            THEN [raised |-> TRUE, error |-> <<>>, port |-> NoneVal, io |-> <<>>, store |-> found.store]
            ELSE IF found.connections = <<>>
            THEN Fails(found, <<"no device matches the VID/PID">>, <<>>)
            ELSE IF candidates = <<>>
            THEN Fails(found, <<"device found but no COM port detected">>, <<>>)
            ELSE IF Len(candidates) > 1 /\ serial.t = "none"
            THEN Fails(found, <<"multiple matching COM ports; specify a serial number">>, <<>>)
            ELSE Sent(found, candidates[1].com_port,
                      serial_session(host.serial_fault, read_bytes, read_until))
        Found(found) == Resolved(found, SelectSeq(found.connections, HasPort))
    IN  IF host.serial_fault = "import_serial"
        THEN [raised |-> FALSE, error |-> <<"pyserial required">>, port |-> NoneVal,
              io |-> <<>>, store |-> store]
        ELSE Found(find_device_connections(host, store, vid, pid, serial, refresh_flag))

\* UsbSnapshotService.send_serial_command with read_bytes=None and
\* read_until=None, the defaults
send_serial_command(host, store, vid, pid, serial, refresh_flag) ==
    send_serial_command_with(host, store, vid, pid, serial, refresh_flag, <<>>, NoneVal)

-----------------------------------------------------------------------------
(* Each specification below drives one group of variables; the other groups *)
(* stay at the idle values defined here.                                    *)

HexIdle ==
    /\ hexArg = NoneVal
    /\ hexOnce = <<>>
    /\ hexTwice = <<>>
    /\ hexPc = "off"

IdIdle ==
    /\ snapA = UsbDeviceSnapshot(<<"-">>, <<"-">>)
    /\ snapB = UsbDeviceSnapshot(<<"-">>, <<"-">>)
    /\ idA = <<>>
    /\ idB = <<>>
    /\ idPc = "off"

MatchIdle ==
    /\ mSnap = UsbDeviceSnapshot(<<"-">>, <<"-">>)
    /\ mPorts = <<>>
    /\ mRet = NoneVal
    /\ mPc = "off"

NoHost == [platform |-> "windows", fault |-> "none", attached |-> <<>>]

NoScanCall == [op |-> "none", vid |-> NoneVal, pid |-> NoneVal, serial |-> NoneVal]

NoScanRet == [raised |-> FALSE, snapshots |-> <<>>, error |-> <<>>, value |-> FALSE]

ScanIdle ==
    /\ scEnv = NoHost
    /\ scCall = NoScanCall
    /\ scRet = NoScanRet
    /\ scPc = "idle"

NoWorld ==
    [platform |-> "posix", fault |-> "none", attached |-> <<>>, ble |-> "absent",
     ble_devices |-> <<>>, ports |-> <<>>, serial_fault |-> "none", write_fault |-> "none"]

NoCall == [op |-> "none", vid |-> NoneVal, pid |-> NoneVal, serial |-> NoneVal, refresh |-> FALSE]

NoRet ==
    [kind |-> "none", raised |-> FALSE, snapshots |-> <<>>, error |-> <<>>,
     connections |-> <<>>, port |-> NoneVal, io |-> <<>>]

MissingStore == [kind |-> "missing", data |-> <<>>]

SvcIdle ==
    /\ svPlatform = "posix"
    /\ svBleModule = FALSE
    /\ svStore = MissingStore
    /\ svWorld = NoWorld
    /\ svCall = NoCall
    /\ svRet = NoRet
    /\ svPc = "off"

-----------------------------------------------------------------------------
(* Specification SpecNormalize: _normalize_hex applied to every input      *)
(* value, then to its own result.                                          *)

HexAlphabet == {"0", "x", "X", "1", "A", " "}

HexNamedStrings ==
    { <<"0", "x", "1", "2", "3", "4">>,
      <<"1", "2", "3", "4">>,
      <<"0", "X", "1", "2", "3", "4">>,
      <<"0", "x", "0", "x", "1", "2">>,
      <<"0", "x", "0", "4", "0", "3">>,
      <<"0", "x", " ", "1", "2", "3", "4">> }

HexInts == {0, 1027, 4660, 24577, 65535, 74565}

HexInputs ==
    {NoneVal}
      \cup {IntVal(n) : n \in HexInts}
      \cup {StrVal(w) : w \in SeqsUpTo(HexAlphabet, MaxHexLen) \cup HexNamedStrings}

HexInit ==
    /\ hexArg \in HexInputs
    /\ hexOnce = <<>>
    /\ hexTwice = <<>>
    /\ hexPc = "idle"

NormalizeCall ==
    /\ hexPc = "idle"
    /\ hexOnce' = _normalize_hex(hexArg)
    /\ hexPc' = "once"
    /\ UNCHANGED <<hexArg, hexTwice>>
    /\ UNCHANGED <<idVars, matchVars, scanVars, svcVars>>

NormalizeAgain ==
    /\ hexPc = "once"
    /\ hexTwice' = _normalize_hex(StrVal(hexOnce))
    /\ hexPc' = "twice"
    /\ UNCHANGED <<hexArg, hexOnce>>
    /\ UNCHANGED <<idVars, matchVars, scanVars, svcVars>>

NormalizeReturn ==
    /\ hexPc = "twice"
    /\ \E v \in HexInputs : hexArg' = v
    /\ hexOnce' = <<>>
    /\ hexTwice' = <<>>
    /\ hexPc' = "idle"
    /\ UNCHANGED <<idVars, matchVars, scanVars, svcVars>>

NormalizeInit == HexInit /\ IdIdle /\ MatchIdle /\ ScanIdle /\ SvcIdle

NormalizeNext == NormalizeCall \/ NormalizeAgain \/ NormalizeReturn

SpecNormalize == NormalizeInit /\ [][NormalizeNext]_vars

\* C5: _normalize_hex is idempotent on every accepted input value, and
\* "0x1234", "1234" and "0X1234" all normalize to "1234".
C5_IdempotentAndCanonical ==
    /\ hexPc = "twice" => hexTwice = hexOnce
    /\ (hexPc \in {"once", "twice"} /\ hexArg.t = "str"
          /\ hexArg.s \in { <<"0", "x", "1", "2", "3", "4">>,
                            <<"1", "2", "3", "4">>,
                            <<"0", "X", "1", "2", "3", "4">> })
         => hexOnce = <<"1", "2", "3", "4">>

-----------------------------------------------------------------------------
(* Specification SpecIdentity: identity() of a snapshot, then of a sibling *)
(* snapshot that is the same in every field but serial.                    *)

IdSerials ==
    {NoneVal}
      \cup {StrVal(w) : w \in SeqsUpTo({"A", "-", " "}, MaxSerialLen)
                               \cup {Unavailable, <<"a">>, <<"a", "5">>}}

IdPortPaths == SeqsUpTo({1, 12}, MaxPathLen)

IdUsbSnapshots ==
    { [UsbDeviceSnapshot(<<"0", "x", "4", "0", "3">>, <<"0", "x", "6", "0", "0", "1">>)
          EXCEPT !.serial = ser, !.port_path = path, !.bus = bus, !.address = addr] :
        ser \in IdSerials, path \in IdPortPaths,
        bus \in {<<>>, <<0>>}, addr \in {<<>>, <<3>>} }

IdBleSnapshots ==
    { [UsbDeviceSnapshot(<<"-">>, <<"-">>)
          EXCEPT !.device_type = "ble", !.class_guess = <<"B", "L", "E">>,
                 !.ble_address = a, !.ble_name = n, !.ble_rssi = r] :
        a \in {<<>>, <<"A", "A", ":", "0", "1">>}, n \in {<<>>, <<"s", "e", "n", "s", "o", "r">>},
        r \in {<<>>, <<0 - 60>>} }

IdSnapshots == IdUsbSnapshots \cup IdBleSnapshots

IdInit ==
    /\ snapA \in IdSnapshots
    /\ snapB = snapA
    /\ idA = <<>>
    /\ idB = <<>>
    /\ idPc = "new"

\* snapshot.identity()
IdentityCall ==
    /\ idPc = "new"
    /\ idA' = identity(snapA)
    /\ idPc' = "called"
    /\ UNCHANGED <<snapA, snapB, idB>>
    /\ UNCHANGED <<hexVars, matchVars, scanVars, svcVars>>

\* identity() of a snapshot with the same fields and the serial ser (which
\* may be the same serial: then it is a repeated call on an unchanged snapshot)
IdentitySiblingCall ==
    /\ idPc = "called"
    /\ \E ser \in IdSerials :
          /\ snapB' = [snapA EXCEPT !.serial = ser]
          /\ idB' = identity([snapA EXCEPT !.serial = ser])
    /\ idPc' = "pair"
    /\ UNCHANGED <<snapA, idA>>
    /\ UNCHANGED <<hexVars, matchVars, scanVars, svcVars>>

IdentityInit == IdInit /\ HexIdle /\ MatchIdle /\ ScanIdle /\ SvcIdle

IdentityNext == IdentityCall \/ IdentitySiblingCall

SpecIdentity == IdentityInit /\ [][IdentityNext]_vars

\* the serial as identity() reads it: trimmed, sentinels and None meaning none
TrimmedSerial(value) ==
    IF value.t # "str" \/ Strip(value.s) \in {<<>>, <<"-">>, Unavailable}
    THEN <<>>
    ELSE Strip(value.s)

\* C6 as stated: two USB snapshots that differ only in their serial strings
\* always have different identities, and an unchanged snapshot keeps its identity.
C6_AnyDifferentSerialStrings ==
    (idPc = "pair" /\ snapA.device_type = "usb"
        /\ snapA.serial.t = "str" /\ snapB.serial.t = "str")
      => /\ snapA.serial # snapB.serial => idA # idB
         /\ snapA = snapB => idA = idB

\* C6 amended: two USB snapshots equal in every field but serial have different
\* identities whenever their serials differ after trimming whitespace and
\* reading the sentinels ("", "-", the unavailable marker) as no serial; an
\* unchanged snapshot keeps its identity.
C6_DifferentTrimmedSerials ==
    (idPc = "pair" /\ snapA.device_type = "usb")
      => /\ TrimmedSerial(snapA.serial) # TrimmedSerial(snapB.serial) => idA # idB
         /\ snapA = snapB => idA = idB

C6_Witness ==
    /\ idPc = "pair"
    /\ snapA.device_type = "usb"
    /\ snapA.port_path # <<>>
    /\ TrimmedSerial(snapA.serial) # <<>>
    /\ TrimmedSerial(snapB.serial) # <<>>
    /\ TrimmedSerial(snapA.serial) # TrimmedSerial(snapB.serial)
    /\ idA # idB

\* the components the identity is specified to consist of
IdentityComponents(s) ==
    LET ser == _normalize_serial(s.serial)
        head == IF ser # <<>>
                THEN <<<<"S", "E", "R", ":">> \o Strip(s.serial.s)>>
                ELSE IF Len(s.port_path) > 0
                THEN <<<<"P", "O", "R", "T", ":">>
                         \o Join([k \in 1..Len(s.port_path) |-> IntStr(s.port_path[k])], <<"-">>)>>
                ELSE <<>>
        busPart == IF s.bus = <<>> THEN <<>> ELSE <<<<"B", "U", "S", ":">> \o IntStr(s.bus[1])>>
        addrPart == IF s.address = <<>> THEN <<>> ELSE <<<<"A", "D", "D", "R", ":">> \o IntStr(s.address[1])>>
        unidentified ==
            IF ser = <<>> /\ s.port_path = <<>> /\ s.bus = <<>> /\ s.address = <<>>
            THEN <<<<"U", "N", "I", "D", "E", "N", "T", "I", "F", "I", "E", "D">>>>
            ELSE <<>>
    IN  head \o busPart \o addrPart \o unidentified
          \o <<<<"V", "I", "D", "P", "I", "D", ":">> \o s.vid \o <<":">> \o s.pid>>

\* C7 as stated: for every snapshot the identity is the " | "-joined list
\* SER or else PORT, BUS, ADDR, UNIDENTIFIED when none contributed, and VIDPID last.
C7_EverySnapshot ==
    idPc # "new" => idA = Join(IdentityComponents(snapA), Sep)

\* C7 amended: for every USB-type snapshot the identity is the " | "-joined list
\* SER:<trimmed serial> when the normalized serial is non-empty, otherwise
\* PORT:<path> when the port path is non-empty; BUS and ADDR when present;
\* UNIDENTIFIED exactly when none contributed; VIDPID:<vid>:<pid> last.
C7_UsbSnapshot ==
    (idPc # "new" /\ snapA.device_type = "usb")
      => idA = Join(IdentityComponents(snapA), Sep)

C7_Witness ==
    /\ idPc = "called"
    /\ snapA.device_type = "usb"
    /\ _normalize_serial(snapA.serial) # <<>>
    /\ snapA.port_path # <<>>
    /\ snapA.bus = <<0>>
    /\ idA = Join(IdentityComponents(snapA), Sep)

-----------------------------------------------------------------------------
(* Specification SpecMatch: _match_com_port on every snapshot and every    *)
(* list of at most MaxPorts port records.                                  *)

ComNames == << <<"C", "O", "M", "7">>, <<"C", "O", "M", "3">>,
               <<"C", "O", "M", "1", "0">>, <<"C", "O", "M", "4">> >>

Vid0403 == <<"0", "x", "0", "4", "0", "3">>
Pid6001 == <<"0", "x", "6", "0", "0", "1">>

\* vid/pid/serial as the port enumeration reports them: hex(vid) or None
PortVids == {NoneVal, StrVal(Hex(1027)), StrVal(Hex(4660))}
PortPids == {StrVal(Hex(24577)), StrVal(Hex(24592))}
PortSerials == {NoneVal, StrVal(<<"A">>), StrVal(<<"a">>), StrVal(<<"B">>)}

PortBodies ==
    { ComPort(NoneVal, v, p, ser) : v \in PortVids, p \in PortPids, ser \in PortSerials }

\* port lists in enumeration order; every port has its own device name
PortLists ==
    { [k \in 1..Len(bodies) |-> [bodies[k] EXCEPT !.device = StrVal(ComNames[k])]] :
        bodies \in SeqsUpTo(PortBodies, MaxPorts) }

MatchSnapshots ==
    { [UsbDeviceSnapshot(v, Pid6001) EXCEPT !.serial = ser] :
        v \in {Vid0403, <<"0", "4", "0", "3">>, <<"0", "x", "1", "2", "3", "4">>},
        ser \in {NoneVal, StrVal(<<>>), StrVal(<<"A">>), StrVal(<<" ", "a">>), StrVal(<<"B">>)} }

MatchInit ==
    /\ mSnap \in MatchSnapshots
    /\ mPorts = <<>>
    /\ mRet = NoneVal
    /\ mPc = "idle"
    /\ HexIdle /\ IdIdle /\ ScanIdle /\ SvcIdle

MatchCall ==
    /\ mPc = "idle"
    /\ \E ports \in PortLists :
          /\ mPorts' = ports
          /\ mRet' = _match_com_port(mSnap, ports)
    /\ mPc' = "done"
    /\ UNCHANGED mSnap
    /\ UNCHANGED <<hexVars, idVars, scanVars, svcVars>>

MatchNext == MatchCall

SpecMatch == MatchInit /\ [][MatchNext]_vars

\* the port matching rule of the correlation engine
PortMatchesSnapshot(port, snapshot) ==
    /\ _normalize_hex(port.vid) = _normalize_hex(StrVal(snapshot.vid))
    /\ _normalize_hex(port.pid) = _normalize_hex(StrVal(snapshot.pid))
    /\ \/ _normalize_serial(snapshot.serial) = <<>>
       \/ _normalize_serial(snapshot.serial) = _normalize_serial(port.serial_number)

\* C1: _match_com_port returns the device name of the first port, in enumeration
\* order, that satisfies the matching rule, and None exactly when no port does;
\* a snapshot with a serial never gets a port whose serial is unknown or empty,
\* and the returned port never has another normalized VID/PID.
C1_FirstMatchingPort ==
    mPc = "done" =>
        LET matching == {k \in 1..Len(mPorts) : PortMatchesSnapshot(mPorts[k], mSnap)}
        IN  /\ matching = {} <=> mRet = NoneVal
            /\ matching # {} =>
                 \E k \in matching :
                    /\ \A j \in matching : k <= j
                    /\ mRet = mPorts[k].device
            /\ \A k \in 1..Len(mPorts) :
                 mRet = mPorts[k].device =>
                    /\ _normalize_hex(mPorts[k].vid) = _normalize_hex(StrVal(mSnap.vid))
                    /\ _normalize_hex(mPorts[k].pid) = _normalize_hex(StrVal(mSnap.pid))
                    /\ _normalize_serial(mSnap.serial) # <<>>
                         => _normalize_serial(mPorts[k].serial_number) # <<>>

\* the first port has the snapshot's VID/PID but an unknown serial and is
\* passed over; the second port is returned
C1_Witness ==
    /\ mPc = "done"
    /\ Len(mPorts) = 2
    /\ _normalize_serial(mSnap.serial) # <<>>
    /\ _normalize_hex(mPorts[1].vid) = _normalize_hex(StrVal(mSnap.vid))
    /\ _normalize_hex(mPorts[1].pid) = _normalize_hex(StrVal(mSnap.pid))
    /\ mPorts[1].serial_number = NoneVal
    /\ mRet = mPorts[2].device

-----------------------------------------------------------------------------
(* SpecScanner: UsbScanner.scan and UsbScanner.is_usb_device_connected     *)
(* against a host with up to MaxDevices attached things.                   *)

ScanHosts ==
    {[platform |-> "windows", fault |-> f, attached |-> a] :
        f \in WindowsFaults, a \in SeqsUpTo(Things, MaxDevices)}
    \cup
    {[platform |-> "posix", fault |-> f, attached |-> a] :
        f \in PyusbFaults, a \in SeqsUpTo(Things, MaxDevices)}

ConnVids == {StrVal(<<"0", "x", "0", "4", "0", "3">>), StrVal(<<"0", "4", "0", "3">>), StrVal(<<"0", "X", "0", "4", "0", "3">>), StrVal(<<"0", "x", "4", "0", "3">>)}

ConnPids == {StrVal(<<"0", "x", "6", "0", "0", "1">>), StrVal(<<"6", "0", "0", "1">>)}

ConnSerials == {NoneVal, StrVal(<<"A", "5">>), StrVal(<<"5", "&", "1">>)}

ScanInit ==
    /\ ScanIdle
    /\ HexIdle /\ IdIdle /\ MatchIdle /\ SvcIdle

\* UsbScanner.scan() on some host
ScanCall ==
    /\ scPc = "idle"
    /\ \E host \in ScanHosts :
        LET r == UsbScanner_scan(host)
        IN  /\ scEnv' = host
            /\ scRet' = [raised |-> r.raised, snapshots |-> r.snapshots,
                         error |-> r.error, value |-> FALSE]
    /\ scCall' = [NoScanCall EXCEPT !.op = "scan"]
    /\ scPc' = "done"
    /\ UNCHANGED <<hexVars, idVars, matchVars, svcVars>>

\* UsbScanner.is_usb_device_connected(vid, pid, serial) on some host
ConnectedCall ==
    /\ scPc = "idle"
    /\ \E host \in ScanHosts, vid \in ConnVids, pid \in ConnPids, serial \in ConnSerials :
        LET r == is_usb_device_connected(host, vid, pid, serial)
        IN  /\ scEnv' = host
            /\ scCall' = [op |-> "is_usb_device_connected", vid |-> vid, pid |-> pid, serial |-> serial]
            /\ scRet' = [raised |-> r.raised, snapshots |-> <<>>, error |-> <<>>, value |-> r.value]
    /\ scPc' = "done"
    /\ UNCHANGED <<hexVars, idVars, matchVars, svcVars>>

\* the caller takes the result
ScanReturn ==
    /\ scPc = "done"
    /\ scEnv' = NoHost
    /\ scCall' = NoScanCall
    /\ scRet' = NoScanRet
    /\ scPc' = "idle"
    /\ UNCHANGED <<hexVars, idVars, matchVars, svcVars>>

ScannerNext == ScanCall \/ ConnectedCall \/ ScanReturn

SpecScanner == ScanInit /\ [][ScannerNext]_vars

IsLowerHexText(text) ==
    \A k \in 1..Len(text) :
        text[k] \in {"0", "1", "2", "3", "4", "5", "6", "7", "8", "9", "a", "b", "c", "d", "e", "f"}

\* the canonical identifier form: exactly four lowercase hexadecimal characters
IsCanonical(text) == Len(text) = 4 /\ IsLowerHexText(text)

ScanDone == scPc = "done" /\ scCall.op = "scan" /\ ~scRet.raised

NonErrorUsb(snapshot) == snapshot.error = <<>> /\ snapshot.device_type = "usb"

Prefixed(text, platform) ==
    /\ StartsWith(text, <<"0", "x">>)
    /\ Len(text) > 2
    /\ IsLowerHexText(DropPrefix(text, 2))
    /\ platform = "windows" => Len(text) = 6
    /\ text # _normalize_hex(StrVal(text))
    /\ IsCanonical(_normalize_hex(StrVal(text)))

ReportedSerial(platform, thing) ==
    IF platform = "windows" THEN StrVal(thing.instance)
    ELSE IF thing.device.strings_readable THEN thing.device.serial ELSE NoneVal

\* some attached USB device has the target's identifiers
Attached(host, vid, pid, serial) ==
    \E k \in 1..Len(host.attached) :
        LET thing == host.attached[k]
        IN  /\ thing.usb
            /\ Format04x(thing.vid) = _normalize_hex(vid)
            /\ Format04x(thing.pid) = _normalize_hex(pid)
            /\ serial.t = "none" \/ serial = ReportedSerial(host.platform, thing)

\* C9 as stated: is_usb_device_connected returns true iff some attached USB
\* device has the target's VID and PID under identifier normalization and,
\* when a serial is supplied, exactly that serial; the answer does not depend
\* on the spelling of the identifiers, on either path.
C9_ConnectedIffAttached ==
    (scPc = "done" /\ scCall.op = "is_usb_device_connected" /\ scEnv.fault = "none") =>
        /\ ~scRet.raised
        /\ scRet.value <=> Attached(scEnv, scCall.vid, scCall.pid, scCall.serial)

\* C10: a scan that hits one of the handled failures does not raise; it
\* returns exactly one snapshot, whose error is the message returned as the
\* scan error and whose device fields are all at the placeholder defaults.
C10_FailureIsOnePlaceholder ==
    (scPc = "done" /\ scCall.op = "scan" /\ scEnv.fault # "none") =>
        /\ ~scRet.raised
        /\ Len(scRet.snapshots) = 1
        /\ scRet.error # <<>>
        /\ scRet.snapshots[1] =
              [UsbDeviceSnapshot(<<"-">>, <<"-">>) EXCEPT !.error = scRet.error]
        /\ scRet.snapshots[1].serial = StrVal(<<>>)
        /\ scRet.snapshots[1].bus = <<>>
        /\ scRet.snapshots[1].address = <<>>
        /\ scRet.snapshots[1].port_path = <<>>

\* a scan failed on the USB-descriptor path with devices attached
C10_Witness ==
    /\ scPc = "done" /\ scCall.op = "scan"
    /\ scEnv.platform = "posix" /\ scEnv.fault = "usb_error"
    /\ scEnv.attached # <<>>
    /\ Len(scRet.snapshots) = 1
    /\ scRet.snapshots[1].error = scRet.error

-----------------------------------------------------------------------------
(* Spec: UsbSnapshotService on one installation (platform, BLE scanner     *)
(* module installed or not).  Each call observes a host with up to         *)
(* MaxDevices attached devices and up to MaxPorts live serial ports.       *)

\* what a scan on this installation can meet
ScanWorlds == Worlds(svPlatform, svBleModule)

\* what a lookup observes: the live ports, and the scan when it refreshes
LookupWorlds(refresh_flag) ==
    {[w EXCEPT !.ports = p] :
        w \in (IF refresh_flag THEN ScanWorlds ELSE {[NoWorld EXCEPT !.platform = svPlatform]}),
        p \in LivePortLists}

Targets ==
    { <<StrVal(<<"0", "x", "0", "4", "0", "3">>), StrVal(<<"6", "0", "0", "1">>), NoneVal>>,
      <<StrVal(<<"0", "4", "0", "3">>), StrVal(<<"0", "x", "6", "0", "0", "1">>), StrVal(<<"a", "5">>)>>,
      <<StrVal(<<"0", "4", "0", "3">>), StrVal(<<"6", "0", "0", "2">>), NoneVal>> }

Init ==
    /\ svPlatform \in Platforms
    /\ svBleModule \in BOOLEAN
    /\ svStore \in {MissingStore, [kind |-> "unreadable", data |-> <<>>], [kind |-> "json", data |-> <<>>]}
    /\ svWorld = NoWorld
    /\ svCall = NoCall
    /\ svRet = NoRet
    /\ svPc = "idle"
    /\ HexIdle /\ IdIdle /\ MatchIdle /\ ScanIdle

\* service.refresh()
Refresh ==
    /\ svPc = "idle"
    /\ \E world \in ScanWorlds :
        \E r \in {refresh(world, svStore)} :
            /\ svWorld' = world
            /\ svStore' = r.store
            /\ svRet' = [NoRet EXCEPT !.kind = "refresh", !.raised = r.raised,
                                      !.snapshots = r.snapshots, !.error = r.error]
    /\ svCall' = [NoCall EXCEPT !.op = "refresh", !.refresh = TRUE]
    /\ svPc' = "done"
    /\ UNCHANGED <<svPlatform, svBleModule>>
    /\ UNCHANGED <<hexVars, idVars, matchVars, scanVars>>

\* service.find_device_connections(vid, pid, serial, refresh=...)
FindDeviceConnections ==
    /\ svPc = "idle"
    /\ \E target \in Targets, refresh_flag \in BOOLEAN :
        \E world \in LookupWorlds(refresh_flag) :
            \E r \in {find_device_connections(world, svStore, target[1], target[2], target[3], refresh_flag)} :
                /\ svWorld' = world
                /\ svCall' = [op |-> "find_device_connections", vid |-> target[1], pid |-> target[2],
                              serial |-> target[3], refresh |-> refresh_flag]
                /\ svStore' = r.store
                /\ svRet' = [NoRet EXCEPT !.kind = "connections", !.raised = r.raised,
                                          !.connections = r.connections]
    /\ svPc' = "done"
    /\ UNCHANGED <<svPlatform, svBleModule>>
    /\ UNCHANGED <<hexVars, idVars, matchVars, scanVars>>

\* service.get_com_port_for_device(vid, pid, serial, refresh=...)
GetComPortForDevice ==
    /\ svPc = "idle"
    /\ \E target \in Targets, refresh_flag \in BOOLEAN :
        \E world \in LookupWorlds(refresh_flag) :
            \E r \in {get_com_port_for_device(world, svStore, target[1], target[2], target[3], refresh_flag)} :
                /\ svWorld' = world
                /\ svCall' = [op |-> "get_com_port_for_device", vid |-> target[1], pid |-> target[2],
                              serial |-> target[3], refresh |-> refresh_flag]
                /\ svStore' = r.store
                /\ svRet' = [NoRet EXCEPT !.kind = "port", !.raised = r.raised, !.port = r.port]
    /\ svPc' = "done"
    /\ UNCHANGED <<svPlatform, svBleModule>>
    /\ UNCHANGED <<hexVars, idVars, matchVars, scanVars>>

\* service.send_serial_command(vid, pid, command, serial=..., refresh=...)
SendSerialCommand ==
    /\ svPc = "idle"
    /\ \E target \in Targets, refresh_flag \in BOOLEAN, serial_fault \in {"none", "open", "import_serial"} :
        \E observed \in (IF serial_fault = "import_serial"
                         THEN {[NoWorld EXCEPT !.platform = svPlatform]}
                         ELSE LookupWorlds(refresh_flag)) :
            \E r \in {send_serial_command([observed EXCEPT !.serial_fault = serial_fault], svStore,
                                          target[1], target[2], target[3], refresh_flag)} :
                /\ svWorld' = [observed EXCEPT !.serial_fault = serial_fault]
                /\ svCall' = [op |-> "send_serial_command", vid |-> target[1], pid |-> target[2],
                              serial |-> target[3], refresh |-> refresh_flag]
                /\ svStore' = r.store
                /\ svRet' = [NoRet EXCEPT !.kind = IF r.error # <<>> THEN "error" ELSE "sent",
                                          !.raised = r.raised, !.error = r.error,
                                          !.port = r.port, !.io = r.io]
    /\ svPc' = "done"
    /\ UNCHANGED <<svPlatform, svBleModule>>
    /\ UNCHANGED <<hexVars, idVars, matchVars, scanVars>>

\* the caller takes the result
Return ==
    /\ svPc = "done"
    /\ svWorld' = NoWorld
    /\ svCall' = NoCall
    /\ svRet' = NoRet
    /\ svPc' = "idle"
    /\ UNCHANGED <<svPlatform, svBleModule, svStore>>
    /\ UNCHANGED <<hexVars, idVars, matchVars, scanVars>>

Next ==
    \/ Refresh
    \/ FindDeviceConnections
    \/ GetComPortForDevice
    \/ SendSerialCommand
    \/ Return

Spec == Init /\ [][Next]_vars

\* a stored snapshot that the lookup of the current call must report
Qualifies(snapshot) ==
    /\ snapshot.error = <<>>
    /\ snapshot.device_type = "usb"
    /\ _normalize_hex(StrVal(snapshot.vid)) = _normalize_hex(svCall.vid)
    /\ _normalize_hex(StrVal(snapshot.pid)) = _normalize_hex(svCall.pid)
    /\ \/ _normalize_serial(svCall.serial) = <<>>
       \/ _normalize_serial(snapshot.serial) = _normalize_serial(svCall.serial)

\* the live COM port records of the observed host with the target's VID/PID
PortsOfTarget ==
    LET ports == get_com_ports(svWorld)
    IN  {j \in 1..Len(ports) :
            /\ _normalize_hex(ports[j].vid) = _normalize_hex(svCall.vid)
            /\ _normalize_hex(ports[j].pid) = _normalize_hex(svCall.pid)}

Completed(op) == svPc = "done" /\ svCall.op = op /\ ~svRet.raised

C3_TwinSnapshotsAreAmbiguous ==
    ( /\ Completed("get_com_port_for_device")
      /\ svCall.serial = NoneVal
      /\ Cardinality({k \in 1..Len(load(svStore)) :
                        /\ Qualifies(load(svStore)[k])
                        /\ _normalize_serial(load(svStore)[k].serial) = <<>>}) >= 2 )
    =>  svRet.kind = "ambiguous"

\* C4: find_device_connections returns exactly one entry per stored snapshot
\* that has no error, is USB-type and has the target's normalized VID and PID
\* and, when the requested normalized serial is non-empty, that normalized
\* serial, in store order; each entry carries the snapshot's matched COM port
\* or none, and its bus, address and port path.  The result is empty iff no
\* stored snapshot qualifies, and never holds an error placeholder.
C4_OneEntryPerQualifyingSnapshot ==
    Completed("find_device_connections") =>
        LET stored == load(svStore)
            expected == SelectSeq(stored, Qualifies)
            ports == get_com_ports(svWorld)
            entries == svRet.connections
        IN  /\ Len(entries) = Len(expected)
            /\ \A k \in 1..Len(entries) :
                LET matching == {j \in 1..Len(ports) : PortMatchesSnapshot(ports[j], expected[k])}
                IN  /\ entries[k].snapshot = expected[k]
                    /\ entries[k].bus = expected[k].bus
                    /\ entries[k].address = expected[k].address
                    /\ entries[k].port_path = expected[k].port_path
                    /\ entries[k].snapshot.error = <<>>
                    /\ IF matching = {} THEN entries[k].com_port = NoneVal
                       ELSE entries[k].com_port = ports[SetMin(matching)].device
            /\ entries = <<>> <=> ~ \E k \in 1..Len(stored) : Qualifies(stored[k])

\* a lookup for serial A5 on a store holding both adapters and an
\* advertisement returned the one adapter A5, with its port
C4_Witness ==
    /\ Completed("find_device_connections")
    /\ Len(load(svStore)) >= 3
    /\ Len(svRet.connections) = 1
    /\ svCall.serial # NoneVal
    /\ svRet.connections[1].com_port # NoneVal

\* a lookup on a store holding only an error placeholder returned nothing
C4_PlaceholderOnly ==
    /\ Completed("find_device_connections")
    /\ Len(load(svStore)) = 1
    /\ load(svStore)[1].error # <<>>
    /\ svRet.connections = <<>>

-----------------------------------------------------------------------------
(* SpecRefresh: UsbSnapshotService.refresh on hosts whose records yield    *)
(* one snapshot or none and whose store may fail to be written, and the    *)
(* lookups that read the store afterwards.                                 *)

WriteFaults == {"none", "open", "write", "write_split"}

\* what a refresh on this installation can meet
RefreshWorlds ==
    {[w EXCEPT !.write_fault = f] :
        w \in WorldsOf(svPlatform, svBleModule, RefreshLists), f \in WriteFaults}

\* service.refresh()
RefreshCall ==
    /\ svPc = "idle"
    /\ \E world \in RefreshWorlds :
        \E r \in {refresh(world, svStore)} :
            /\ svWorld' = world
            /\ svStore' = r.store
            /\ svRet' = [NoRet EXCEPT !.kind = "refresh", !.raised = r.raised,
                                      !.snapshots = r.snapshots, !.error = r.error]
    /\ svCall' = [NoCall EXCEPT !.op = "refresh", !.refresh = TRUE]
    /\ svPc' = "done"
    /\ UNCHANGED <<svPlatform, svBleModule>>
    /\ UNCHANGED <<hexVars, idVars, matchVars, scanVars>>

\* service.find_device_connections(vid, pid, serial, refresh=False)
StoredLookup ==
    /\ svPc = "idle"
    /\ \E target \in Targets, ports \in LivePortLists :
        \E world \in {[NoWorld EXCEPT !.platform = svPlatform, !.ports = ports]} :
            \E r \in {find_device_connections(world, svStore, target[1], target[2], target[3], FALSE)} :
                /\ svWorld' = world
                /\ svCall' = [op |-> "find_device_connections", vid |-> target[1], pid |-> target[2],
                              serial |-> target[3], refresh |-> FALSE]
                /\ svStore' = r.store
                /\ svRet' = [NoRet EXCEPT !.kind = "connections", !.raised = r.raised,
                                          !.connections = r.connections]
    /\ svPc' = "done"
    /\ UNCHANGED <<svPlatform, svBleModule>>
    /\ UNCHANGED <<hexVars, idVars, matchVars, scanVars>>

RefreshNext ==
    \/ RefreshCall
    \/ StoredLookup
    \/ Return

SpecRefresh == Init /\ [][RefreshNext]_vars

\* a refresh returned to its caller, or an exception left it
RefreshDone == svPc = "done" /\ svCall.op = "refresh"

\* the scan met no fault and none of the attached things is a USB device
\* with identifiers
ZeroRecords ==
    /\ svWorld.fault = "none"
    /\ \A k \in 1..Len(svWorld.attached) : ~svWorld.attached[k].usb

DefaultMessage == <<"no USB/BT device found">>

\* what every refresh leaves: no exception on a fault-free scan, a list
\* that is never empty, and a store that is never empty once written
NeverEmpty ==
    /\ (RefreshDone /\ svWorld.fault = "none") => ~svRet.raised
    /\ (RefreshDone /\ ~svRet.raised) =>
            /\ svRet.snapshots # <<>>
            /\ svWorld.write_fault = "none" =>
                    /\ svStore.kind = "json"
                    /\ svStore.data # <<>>
                    /\ load(svStore) = svRet.snapshots

\* what UsbScanner.scan gives when no record qualifies: no snapshot, and a
\* diagnostic on the management-instrumentation path
ZeroRecordsScan ==
    (RefreshDone /\ ZeroRecords) =>
        /\ UsbScanner_scan(svWorld).snapshots = <<>>
        /\ svWorld.platform = "windows" => UsbScanner_scan(svWorld).error # <<>>
        /\ svWorld.platform # "windows" => UsbScanner_scan(svWorld).error = <<>>

\* C11 as stated: with zero qualifying USB records (and no BLE device), the
\* one placeholder refresh returns carries the diagnostic of UsbScanner.scan,
\* or the default message when UsbScanner.scan gave no diagnostic.
C11_PlaceholderCarriesUsbDiagnostic ==
    /\ ZeroRecordsScan
    /\ NeverEmpty
    /\ (RefreshDone /\ ZeroRecords /\ DeviceScanner_scan(svWorld).snapshots = <<>>) =>
            svRet.snapshots =
                <<placeholder(IF UsbScanner_scan(svWorld).error # <<>>
                              THEN UsbScanner_scan(svWorld).error ELSE DefaultMessage)>>

\* C11 amended: with zero qualifying USB records, UsbScanner.scan returns no
\* snapshot, with a diagnostic on the management-instrumentation path; when
\* the BLE scan adds no snapshot either, refresh returns and persists exactly
\* one placeholder whose error is the diagnostic of DeviceScanner.scan (the
\* USB diagnostic, the BLE diagnostic, or both combined), or the default
\* message when there is none.  refresh never returns or persists an empty
\* list and does not raise.
C11_PlaceholderCarriesScanDiagnostic ==
    /\ ZeroRecordsScan
    /\ NeverEmpty
    /\ (RefreshDone /\ ZeroRecords /\ DeviceScanner_scan(svWorld).snapshots = <<>>) =>
            /\ svRet.snapshots =
                <<placeholder(IF DeviceScanner_scan(svWorld).error # <<>>
                              THEN DeviceScanner_scan(svWorld).error ELSE DefaultMessage)>>
            /\ svRet.error = DeviceScanner_scan(svWorld).error

\* records were enumerated, none qualified, the BLE scan found nothing: the
\* placeholder with the diagnostic of the management-instrumentation path
\* was returned and persisted
C11_Witness ==
    /\ RefreshDone
    /\ ZeroRecords
    /\ svWorld.attached # <<>>
    /\ svWorld.platform = "windows"
    /\ svWorld.ble = "ok"
    /\ svWorld.write_fault = "none"
    /\ Len(svRet.snapshots) = 1
    /\ svRet.snapshots[1].error = <<"no USB device information via WMI">>
    /\ load(svStore) = svRet.snapshots

\* nothing attached, no diagnostic: the default message
C11_DefaultMessage ==
    /\ RefreshDone
    /\ ZeroRecords
    /\ Len(svRet.snapshots) = 1
    /\ svRet.snapshots[1].error = DefaultMessage

-----------------------------------------------------------------------------
(* SpecWalk: UsbScanner.scan on the USB-descriptor path, the device under  *)
(* test enumerated alone, before or after an adapter that reads well.      *)

\* what reading bInterfaceClass of an interface can give: a class with a
\* label, a class without one, or nothing
ClassReads == {IntVal(2), IntVal(3), IntVal(10), IntVal(254), IntVal(255), NoneVal}

\* how the walk of a device can go: every step and read succeeds; stepping to
\* a configuration or to an interface raises; device.port_numbers is missing
\* (AttributeError), or is None
Walks == {"ok", "next_configuration", "next_interface", "port_numbers_missing", "port_numbers_none"}

WalkDevices ==
    {[FtdiA5.device EXCEPT !.interface_classes = classes] :
        classes \in SeqsUpTo(ClassReads, MaxInterfaces)}
    \cup {[FtdiA5.device EXCEPT !.walk = walk] : walk \in Walks}
    \cup {[FtdiA5.device EXCEPT !.strings_readable = FALSE],
          [FtdiA5.device EXCEPT !.idVendor = NoneVal, !.bus = <<>>, !.address = <<>>]}

WalkThing(device) == [FtdiA5 EXCEPT !.device = device]

WalkHosts ==
    {[platform |-> "posix", fault |-> "none", attached |-> a] :
        a \in UNION {{<<WalkThing(d)>>, <<WalkThing(d), FtdiPlain>>, <<FtdiPlain, WalkThing(d)>>} :
                        d \in WalkDevices}}

\* UsbScanner.scan() on some host
WalkScan ==
    /\ scPc = "idle"
    /\ \E host \in WalkHosts :
        \E r \in {UsbScanner_scan(host)} :
            /\ scEnv' = host
            /\ scRet' = [raised |-> r.raised, snapshots |-> r.snapshots,
                         error |-> r.error, value |-> FALSE]
    /\ scCall' = [NoScanCall EXCEPT !.op = "scan"]
    /\ scPc' = "done"
    /\ UNCHANGED <<hexVars, idVars, matchVars, svcVars>>

WalkNext == WalkScan \/ ScanReturn

SpecWalk == ScanInit /\ [][WalkNext]_vars

WalkDone == scPc = "done" /\ scCall.op = "scan"

\* C12 as stated: whatever read of the descriptor walk of a device fails,
\* scan() does not raise and returns a non-error snapshot for that device and
\* for every other enumerated device.
C12_WalkFailuresAreAbsorbed ==
    WalkDone =>
        /\ ~scRet.raised
        /\ Len(scRet.snapshots) = Len(scEnv.attached)
        /\ \A k \in 1..Len(scRet.snapshots) : scRet.snapshots[k].error = <<>>

\* the failures the walk does absorb: an unreadable identifier, bus, address,
\* string descriptor or interface class, and a port_numbers that is None
C12_AbsorbedReads ==
    /\ WalkDone
    /\ ~scRet.raised
    /\ \E k \in 1..Len(scRet.snapshots) :
        /\ scRet.snapshots[k].vid = Unavailable
        /\ scRet.snapshots[k].error = <<>>

\* the fixed table of interface class labels, on the codes that are read
ClassLabel ==
    [code \in {2, 3, 10, 254, 255} |->
        CASE code = 2 -> <<"C", "D", "C", "-", "A", "C", "M">>
          [] code = 3 -> <<"H", "I", "D">>
          [] code = 254 -> <<"U", "S", "B", "T", "M", "C">>
          [] code = 255 -> <<"V", "e", "n", "d", "o", "r">>
          [] code = 10 -> <<"0", "x", "0", "A">>]

\* the labels of the interface classes of a device that could be read
LabelsOf(device) ==
    {ClassLabel[device.interface_classes[k].i] :
        k \in {j \in 1..Len(device.interface_classes) : device.interface_classes[j].t = "int"}}

\* the ways of listing every element of a set once
Orderings(S) ==
    {w \in SeqsUpTo(S, Cardinality(S)) :
        Len(w) = Cardinality(S) /\ \A a, b \in 1..Len(w) : a # b => w[a] # w[b]}

\* C20 as stated: on the USB-descriptor path class_guess lists the distinct
\* labels of the device's interface classes, comma-joined, each label once
\* even when several interfaces share a class; it is "-" exactly when no
\* interface class could be read.
C20_DistinctLabels ==
    (WalkDone /\ ~scRet.raised) =>
        \A k \in 1..Len(scRet.snapshots) :
            IF LabelsOf(scEnv.attached[k].device) = {}
            THEN scRet.snapshots[k].class_guess = <<"-">>
            ELSE \E w \in Orderings(LabelsOf(scEnv.attached[k].device)) :
                    scRet.snapshots[k].class_guess = Join(w, <<",">>)

\* what holds of class_guess: one label per readable interface class, in
\* interface order, a label repeated as often as interfaces share its class
C20_OneLabelPerInterface ==
    (WalkDone /\ ~scRet.raised) =>
        \A k \in 1..Len(scRet.snapshots) :
            LET readable == SelectSeq(scEnv.attached[k].device.interface_classes, IsInt)
            IN  scRet.snapshots[k].class_guess =
                    IF readable = <<>> THEN <<"-">>
                    ELSE Join([j \in 1..Len(readable) |-> ClassLabel[readable[j].i]], <<",">>)

\* a refresh whose write of the store failed has just returned
FailedWriteStep ==
    /\ svPc = "idle"
    /\ RefreshDone'
    /\ svWorld'.write_fault # "none"
    /\ ~svRet'.raised

\* a find with refresh=false has just ended
StoredLookupStep ==
    /\ svPc = "idle"
    /\ svPc' = "done"
    /\ svCall'.op = "find_device_connections"

\* the refresh returned what it returns when the write succeeds
SamePairAsWritten ==
    LET Written(written) ==
            /\ ~written.raised
            /\ svRet'.snapshots = written.snapshots
            /\ svRet'.error = written.error
    IN  Written(refresh([svWorld' EXCEPT !.write_fault = "none"], svStore))

\* C15: when the write of the store fails, save does not raise and refresh
\* returns the same (snapshots, error) pair as when the write succeeds; a
\* later find with refresh=false reads what the store held before, or a
\* placeholder, and does not raise.
C15_WriteFailureIsHarmless ==
    [][ /\ FailedWriteStep =>
            /\ SamePairAsWritten
            /\ ~load_raises(svStore')
            /\ \/ load(svStore') = load(svStore)
               \/ IsPlaceholder(load(svStore'), <<"failed to read device information">>)
        /\ StoredLookupStep => ~svRet'.raised ]_vars

\* what does hold after a failed write: save does not raise, refresh returns
\* the pair of the successful case, and the file is the old one or one that
\* cannot be read
C15_RefreshUnaffected ==
    [][ FailedWriteStep =>
            /\ SamePairAsWritten
            /\ svStore' = svStore \/ svStore'.kind \in {"unreadable", "undecodable"} ]_vars

\* a find with refresh=false raised on the file a failed write left
C15_LookupRaised ==
    /\ svPc = "done"
    /\ svCall.op = "find_device_connections"
    /\ svRet.raised
    /\ svStore.kind = "undecodable"

\* the instrumentation the annotation needs is lacking on this host
LacksInstrumentation ==
    \/ svWorld.platform # "windows"
    \/ svWorld.fault \in {"import_wmi", "wmi_init", "pnp_query"}

\* the list refresh hands to the annotation: the scan's snapshots, or the
\* placeholder
BeforeAnnotation ==
    LET Scanned(scanned) ==
            IF scanned.snapshots # <<>> THEN scanned.snapshots
            ELSE <<placeholder(IF scanned.error # <<>> THEN scanned.error ELSE DefaultMessage)>>
    IN  Scanned(DeviceScanner_scan(svWorld))

\* C16: annotate_windows_topology returns without raising and changes no
\* field of any snapshot when the platform is not Windows, when the wmi
\* module cannot be imported, or when the management session or one of its
\* queries cannot be acquired; refresh then persists and returns the
\* snapshots.
C16_NoOpWithoutInstrumentation ==
    (RefreshDone /\ LacksInstrumentation) =>
        /\ ~svRet.raised
        /\ svRet.snapshots = BeforeAnnotation
        /\ svWorld.write_fault = "none" => load(svStore) = svRet.snapshots

\* what holds: off Windows and without the wmi module the annotation is a
\* no-op and refresh persists and returns the snapshots
C16_NoOpOffWindows ==
    (RefreshDone /\ (svWorld.platform # "windows" \/ svWorld.fault = "import_wmi")) =>
        /\ ~svRet.raised
        /\ svRet.snapshots = BeforeAnnotation
        /\ svWorld.write_fault = "none" => load(svStore) = svRet.snapshots

\* the management session could not be acquired and the refresh raised
C16_RefreshRaised ==
    /\ RefreshDone
    /\ svWorld.platform = "windows"
    /\ svWorld.fault = "wmi_init"
    /\ svRet.raised

-----------------------------------------------------------------------------
(* SpecRepository: UsbSnapshotRepository.load and save on a file that the  *)
(* repository or anything else may have written.                           *)

\* the snapshots handed to save
RepoSnapshots ==
    { _snapshot_device(FtdiA5.device), _snapshot_device(Keyboard.device),
      _ble_snapshot(Beacon), placeholder(DefaultMessage) }

SaveLists == SeqsUpTo(RepoSnapshots, MaxDevices)

\* entries of a file that save did not write: an object with a few of the
\* keys, and values that are not objects
PartialEntry == [vid |-> <<"0", "4", "0", "3">>, serial |-> StrVal(<<"A", "5">>)]

ForeignEntries == {PartialEntry, to_dict(_snapshot_device(FtdiA5.device)), [scalar |-> "7"], [scalar |-> "null"]}

\* the files load can meet before the repository has written one
RepoStores ==
    { MissingStore,
      [kind |-> "unreadable", data |-> <<>>],
      [kind |-> "undecodable", data |-> <<>>],
      [kind |-> "json_scalar", data |-> <<>>],
      [kind |-> "json", data |-> <<PartialEntry>>] }
    \cup {[kind |-> "json", data |-> entries] : entries \in SeqsUpTo(ForeignEntries, MaxDevices)}

RepoInit ==
    /\ svPlatform = "posix"
    /\ svBleModule = FALSE
    /\ svStore \in RepoStores
    /\ svWorld = NoWorld
    /\ svCall = NoCall
    /\ svRet = NoRet
    /\ svPc = "idle"
    /\ HexIdle /\ IdIdle /\ MatchIdle /\ ScanIdle

\* repository.load()
RepoLoad ==
    /\ svPc = "idle"
    /\ svCall' = [NoCall EXCEPT !.op = "load"]
    /\ svRet' = IF load_raises(svStore) THEN [NoRet EXCEPT !.kind = "load", !.raised = TRUE]
                ELSE [NoRet EXCEPT !.kind = "load", !.snapshots = load(svStore)]
    /\ svPc' = "done"
    /\ UNCHANGED <<svPlatform, svBleModule, svStore, svWorld>>
    /\ UNCHANGED <<hexVars, idVars, matchVars, scanVars>>

\* repository.save(snapshots)
RepoSave ==
    /\ svPc = "idle"
    /\ \E snapshots \in SaveLists, write_fault \in WriteFaults :
        /\ svWorld' = [NoWorld EXCEPT !.write_fault = write_fault]
        /\ svStore' = save(svStore, snapshots, write_fault)
        /\ svRet' = [NoRet EXCEPT !.kind = "save", !.snapshots = snapshots]
    /\ svCall' = [NoCall EXCEPT !.op = "save"]
    /\ svPc' = "done"
    /\ UNCHANGED <<svPlatform, svBleModule>>
    /\ UNCHANGED <<hexVars, idVars, matchVars, scanVars>>

RepoNext ==
    \/ RepoLoad
    \/ RepoSave
    \/ Return

SpecRepository == RepoInit /\ [][RepoNext]_vars

LoadDone == svPc = "done" /\ svCall.op = "load"

\* a save that wrote the file returned; svRet.snapshots is the list it was
\* given
SaveWrote == svPc = "done" /\ svCall.op = "save" /\ svWorld.write_fault = "none"

\* C13: load never raises and never returns an empty list: one placeholder
\* for a missing store, one for an unreadable or malformed store, one for a
\* store that parses but is empty, and otherwise one snapshot per stored
\* entry in stored order, also when an entry of the array is malformed.
C13_LoadNeverRaises ==
    LoadDone =>
        /\ ~svRet.raised
        /\ svRet.snapshots # <<>>
        /\ svStore.kind = "missing" =>
                IsPlaceholder(svRet.snapshots, <<"device information does not exist">>)
        /\ svStore.kind \in {"unreadable", "undecodable"} =>
                IsPlaceholder(svRet.snapshots, <<"failed to read device information">>)
        /\ (svStore.kind = "json_scalar" \/ (svStore.kind = "json" /\ svStore.data = <<>>)) =>
                IsPlaceholder(svRet.snapshots, <<"device information is empty">>)
        /\ (svStore.kind = "json" /\ svStore.data # <<>>) =>
                Len(svRet.snapshots) = Len(svStore.data)

\* what load does keep: whenever it returns, the list is not empty, the
\* three placeholders are as described, and a list of objects gives one
\* snapshot per object, in order, absent keys taking their defaults
C13_WhenLoadReturns ==
    (LoadDone /\ ~svRet.raised) =>
        /\ svRet.snapshots # <<>>
        /\ svStore.kind = "missing" =>
                IsPlaceholder(svRet.snapshots, <<"device information does not exist">>)
        /\ svStore.kind = "unreadable" =>
                IsPlaceholder(svRet.snapshots, <<"failed to read device information">>)
        /\ (svStore.kind = "json_scalar" \/ (svStore.kind = "json" /\ svStore.data = <<>>)) =>
                IsPlaceholder(svRet.snapshots, <<"device information is empty">>)
        /\ (svStore.kind = "json" /\ svStore.data # <<>>) =>
                /\ Len(svRet.snapshots) = Len(svStore.data)
                /\ \A k \in 1..Len(svStore.data) : svRet.snapshots[k] = from_dict(svStore.data[k])

\* the (vid, pid, serial, class_guess) tuple of a snapshot
RoundTripKey(snapshot) == <<snapshot.vid, snapshot.pid, snapshot.serial, snapshot.class_guess>>

Occurrences(snapshots, key) == Cardinality({k \in 1..Len(snapshots) : RoundTripKey(snapshots[k]) = key})

\* the two lists hold the same tuples the same number of times
SameCollection(left, right) ==
    \A key \in {RoundTripKey(left[k]) : k \in 1..Len(left)} \cup {RoundTripKey(right[k]) : k \in 1..Len(right)} :
        Occurrences(left, key) = Occurrences(right, key)

\* C14 as stated: for every snapshot list S, a save(S) that succeeds
\* followed by load() returns a list with the same collection of
\* (vid, pid, serial, class_guess) tuples as S.
C14_RoundTrip ==
    SaveWrote =>
        /\ ~load_raises(svStore)
        /\ SameCollection(load(svStore), svRet.snapshots)

\* C14 amended: for every snapshot list S that is not empty, a save(S) that
\* succeeds followed by load() returns a list with the same collection of
\* (vid, pid, serial, class_guess) tuples as S (the same snapshots, in the
\* same order); after save([]) load returns the one placeholder of an empty
\* store.
C14_RoundTripNonEmpty ==
    SaveWrote =>
        /\ ~load_raises(svStore)
        /\ svRet.snapshots # <<>> =>
                /\ SameCollection(load(svStore), svRet.snapshots)
                /\ load(svStore) = svRet.snapshots
        /\ svRet.snapshots = <<>> =>
                IsPlaceholder(load(svStore), <<"device information is empty">>)

\* two snapshots with the same tuple were saved over a file that load could
\* not read
C14_Witness ==
    /\ SaveWrote
    /\ Len(svRet.snapshots) = 2
    /\ svRet.snapshots[1] = svRet.snapshots[2]
    /\ svRet.snapshots[1].serial = StrVal(<<"A", "5">>)
    /\ load(svStore) = svRet.snapshots

-----------------------------------------------------------------------------
(* SpecTopology: _TopologyResolver.build_mapping over the entity records   *)
(* of a Windows host, and the annotation step of refresh over a list of    *)
(* snapshots.                                                              *)

TopologyThings == {FtdiA5, FtdiPlain, FtdiBare, Keyboard, RootHub}

TopologyHosts ==
    {[platform |-> "windows", fault |-> "none", attached |-> attached] :
        attached \in DistinctSeqs(TopologyThings, MaxDevices)}

\* snapshots to annotate: the adapter with serial a5, one of the same model
\* with a serial no record has, one without serial, the keyboard, a BLE
\* device and a placeholder
TopologySnapshots ==
    { [UsbDeviceSnapshot(<<"0", "x", "0", "4", "0", "3">>, <<"6", "0", "0", "1">>) EXCEPT !.serial = StrVal(<<"a", "5">>)],
      [UsbDeviceSnapshot(<<"0", "4", "0", "3">>, <<"6", "0", "0", "1">>) EXCEPT !.serial = StrVal(<<"Z", "Z">>)],
      UsbDeviceSnapshot(<<"0", "4", "0", "3">>, <<"6", "0", "0", "1">>),
      [UsbDeviceSnapshot(<<"0", "a", "b", "c">>, <<"0", "0", "e", "f">>) EXCEPT !.serial = StrVal(<<"B", "7">>),
                                                                 !.bus = <<2>>, !.port_path = <<1>>],
      _ble_snapshot(Beacon),
      placeholder(DefaultMessage) }

\* _TopologyResolver(client).build_mapping()
TopologyBuild ==
    /\ scPc = "idle"
    /\ \E host \in TopologyHosts :
        /\ scEnv' = host
        /\ scRet' = [NoScanRet EXCEPT !.value = build_mapping(host.attached, <<>>)]
    /\ scCall' = [NoScanCall EXCEPT !.op = "build_mapping"]
    /\ scPc' = "done"
    /\ UNCHANGED <<hexVars, idVars, matchVars, svcVars>>

\* the annotation step of refresh on a list of snapshots
TopologyAnnotate ==
    /\ scPc = "idle"
    /\ \E host \in TopologyHosts, snapshots \in SeqsUpTo(TopologySnapshots, MaxDevices) :
        \E r \in {annotate_usb(snapshots, host)} :
            /\ scEnv' = host
            /\ scCall' = [op |-> "annotate", vid |-> NoneVal, pid |-> NoneVal, serial |-> NoneVal,
                          snapshots |-> snapshots]
            /\ scRet' = [NoScanRet EXCEPT !.raised = r.raised, !.snapshots = r.snapshots]
    /\ scPc' = "done"
    /\ UNCHANGED <<hexVars, idVars, matchVars, svcVars>>

TopologyNext ==
    \/ TopologyBuild
    \/ TopologyAnnotate
    \/ ScanReturn

SpecTopology == ScanInit /\ [][TopologyNext]_vars

BuildDone == scPc = "done" /\ scCall.op = "build_mapping"

AnnotateDone == scPc = "done" /\ scCall.op = "annotate"

\* the mapping of the record alone: empty when the record is not indexed
MappingOf(thing) == build_mapping(<<thing>>, <<>>)

Indexed(thing) == DOMAIN MappingOf(thing) # {}

\* the key (vid, pid, "") of an indexed record
FallbackKey(thing) == CHOOSE key \in DOMAIN MappingOf(thing) : key[3] = <<>>

\* the entry resolved for an indexed record
EntryOf(thing) == MappingOf(thing)[FallbackKey(thing)]

\* the record at k is the first processed record with its VID/PID
FirstOfItsKind(attached, k) ==
    /\ Indexed(attached[k])
    /\ \A j \in 1..(k - 1) :
            Indexed(attached[j]) => FallbackKey(attached[j]) # FallbackKey(attached[k])

\* C17: for every sequence of USB-rooted entity records, whatever their
\* parsed serials (empty ones included), the entry under the fallback key
\* (vid, pid, "") at the end of build_mapping is the entry of the first
\* processed record with that VID/PID.
C17_FirstRecordKeepsFallback ==
    BuildDone =>
        \A k \in 1..Len(scEnv.attached) :
            FirstOfItsKind(scEnv.attached, k) =>
                /\ FallbackKey(scEnv.attached[k]) \in DOMAIN scRet.value
                /\ scRet.value[FallbackKey(scEnv.attached[k])] = EntryOf(scEnv.attached[k])

\* the parsed serial of an indexed record is empty
EmptySerial(thing) == DOMAIN MappingOf(thing) = {FallbackKey(thing)}

\* what holds: the first record keeps the fallback key unless a later
\* record with the same VID/PID has an empty parsed serial
C17_FirstKeepsAmongSerials ==
    BuildDone =>
        \A k \in 1..Len(scEnv.attached) :
            ( /\ FirstOfItsKind(scEnv.attached, k)
              /\ \A j \in (k + 1)..Len(scEnv.attached) :
                    (Indexed(scEnv.attached[j]) /\ FallbackKey(scEnv.attached[j]) = FallbackKey(scEnv.attached[k]))
                        => ~EmptySerial(scEnv.attached[j]) ) =>
                scRet.value[FallbackKey(scEnv.attached[k])] = EntryOf(scEnv.attached[k])

\* a later record with an empty serial took the fallback key
C17_FallbackReplaced ==
    /\ BuildDone
    /\ Len(scEnv.attached) = 2
    /\ scEnv.attached[1] = FtdiA5
    /\ scRet.value[FallbackKey(FtdiA5)] = EntryOf(FtdiBare)

\* the four fields the annotation assigns, taken from an entry
WithTopology(snapshot, entry) ==
    [snapshot EXCEPT !.topology_chain = entry.port_hub_chain,
                     !.location_information = entry.location_information,
                     !.location_fallback = entry.location_fallback,
                     !.usb_controllers = entry.usb_controllers]

\* the snapshot without the four topology fields
Untouchable(snapshot) ==
    [snapshot EXCEPT !.topology_chain = <<>>, !.location_information = <<>>,
                     !.location_fallback = <<>>, !.usb_controllers = <<>>]

\* what the claim prescribes for one snapshot
Prescribed(snapshot, mapping) ==
    IF ~IsUsb(snapshot) THEN snapshot
    ELSE IF _topology_snapshot_key(snapshot, TRUE) \in DOMAIN mapping
    THEN WithTopology(snapshot, mapping[_topology_snapshot_key(snapshot, TRUE)])
    ELSE IF _topology_snapshot_key(snapshot, FALSE) \in DOMAIN mapping
    THEN WithTopology(snapshot, mapping[_topology_snapshot_key(snapshot, FALSE)])
    ELSE snapshot

\* C18: for each snapshot the annotation uses the entry under the exact
\* (vid, pid, serial) key when present, otherwise the entry under
\* (vid, pid, ""), and changes no field when neither exists; it assigns only
\* topology_chain, location_information, location_fallback and
\* usb_controllers; snapshots that are not of USB type are not handed to it.
C18_AnnotationFrame ==
    AnnotateDone =>
        /\ ~scRet.raised
        /\ Len(scRet.snapshots) = Len(scCall.snapshots)
        /\ \A k \in 1..Len(scCall.snapshots) :
            /\ scRet.snapshots[k] = Prescribed(scCall.snapshots[k], build_mapping(scEnv.attached, <<>>))
            /\ Untouchable(scRet.snapshots[k]) = Untouchable(scCall.snapshots[k])
            /\ ~IsUsb(scCall.snapshots[k]) => scRet.snapshots[k] = scCall.snapshots[k]

\* one snapshot was annotated through its exact key, one through the
\* fallback key although a record with another serial came first
C18_Witness ==
    /\ AnnotateDone
    /\ scEnv.attached = <<FtdiPlain, FtdiA5>>
    /\ Len(scCall.snapshots) = 2
    /\ scCall.snapshots[1].serial = StrVal(<<"a", "5">>)
    /\ scCall.snapshots[2].serial = StrVal(<<"Z", "Z">>)
    /\ scRet.snapshots[1].usb_controllers = <<"ehci1">>
    /\ scRet.snapshots[2].usb_controllers = <<"xHCI Host Controller">>
    /\ scRet.snapshots[2].topology_chain # <<>>

\* a snapshot for which neither key exists, and a BLE snapshot, were left
\* as they were
C18_Untouched ==
    /\ AnnotateDone
    /\ scEnv.attached = <<FtdiA5>>
    /\ Len(scCall.snapshots) = 2
    /\ scCall.snapshots[1].vid = <<"0", "a", "b", "c">>
    /\ ~IsUsb(scCall.snapshots[2])
    /\ scRet.snapshots = scCall.snapshots

-----------------------------------------------------------------------------
(* SpecRecords: UsbScanner._scan_windows over Win32_PnPEntity records      *)
(* whose device ids differ in root, markers and letter case.               *)

Record(device_id) ==
    [usb |-> TRUE, vid |-> 1027, pid |-> 24577, instance |-> <<"5", "&", "1">>,
     entity |-> Entity(device_id, NoneVal, StrVal(<<"P", "o", "r", "t">>), NoneVal, NoneVal, NoneVal),
     device |-> NoDevice,
     controllers |-> <<>>]

\* the markers in lower case
LowerMarkers == Record(<<"U", "S", "B", "\\", "v", "i", "d", "_", "0", "4", "0", "3", "&", "p", "i", "d", "_", "6", "0", "0", "1", "\\", "5", "&", "1">>)

\* the root in lower case
LowerRoot == Record(<<"u", "s", "b", "\\", "V", "I", "D", "_", "0", "4", "0", "3", "&", "P", "I", "D", "_", "6", "0", "0", "1", "\\", "5", "&", "1">>)

\* PID_ before VID_
PidFirst == Record(<<"U", "S", "B", "\\", "P", "I", "D", "_", "6", "0", "0", "1", "&", "V", "I", "D", "_", "0", "4", "0", "3", "\\", "5", "&", "1">>)

\* three hex digits after VID_
ShortVid == Record(<<"U", "S", "B", "\\", "V", "I", "D", "_", "4", "0", "3", "&", "P", "I", "D", "_", "6", "0", "0", "1", "\\", "5", "&", "1">>)

\* no PID_ marker
VidOnly == Record(<<"U", "S", "B", "\\", "V", "I", "D", "_", "0", "4", "0", "3", "\\", "5", "&", "1">>)

RecordThings == {FtdiA5, Keyboard, RootHub, PciCard, LowerMarkers, LowerRoot, PidFirst, ShortVid, VidOnly}

RecordHosts ==
    {[platform |-> "windows", fault |-> fault, attached |-> attached] :
        fault \in WindowsFaults, attached \in SeqsUpTo(RecordThings, MaxDevices)}

\* UsbScanner.scan() on a Windows host
RecordScan ==
    /\ scPc = "idle"
    /\ \E host \in RecordHosts :
        \E r \in {UsbScanner_scan(host)} :
            /\ scEnv' = host
            /\ scRet' = [raised |-> r.raised, snapshots |-> r.snapshots,
                         error |-> r.error, value |-> FALSE]
    /\ scCall' = [NoScanCall EXCEPT !.op = "scan"]
    /\ scPc' = "done"
    /\ UNCHANGED <<hexVars, idVars, matchVars, svcVars>>

RecordNext ==
    \/ RecordScan
    \/ ScanReturn

SpecRecords == ScanInit /\ [][RecordNext]_vars

\* the records were enumerated
Enumerated == scPc = "done" /\ scCall.op = "scan" /\ scEnv.fault = "none"

DeviceIdOf(thing) == IF thing.entity.DeviceID.t = "str" THEN thing.entity.DeviceID.s ELSE <<>>

UsbRooted(device_id) == StartsWith(device_id, <<"U", "S", "B", "\\">>)

\* VID_ and four hex digits, later PID_ and four hex digits, in any letter
\* case
HasIdentifiersAnyCase(device_id) == _parse_vid_pid(Upper(device_id))[1] # <<>>

\* the same with the markers in capitals
HasIdentifiers(device_id) == _parse_vid_pid(device_id)[1] # <<>>

\* the snapshots of a scan are those of the records that satisfy Yields,
\* one for each
OneSnapshotPerRecord(Yields(_)) ==
    /\ ~scRet.raised
    /\ Len(scRet.snapshots) =
            Cardinality({k \in 1..Len(scEnv.attached) : Yields(DeviceIdOf(scEnv.attached[k]))})
    /\ \A k \in 1..Len(scEnv.attached) :
            Yields(DeviceIdOf(scEnv.attached[k]))
                <=> UsbScanner_scan([scEnv EXCEPT !.attached = <<scEnv.attached[k]>>]).snapshots # <<>>

CaseBlind(device_id) == UsbRooted(device_id) /\ HasIdentifiersAnyCase(device_id)

CapitalMarkers(device_id) == UsbRooted(device_id) /\ HasIdentifiers(device_id)

\* C19: on the management-instrumentation path a record yields a snapshot
\* iff its device id is USB-rooted and contains VID_ and four hex digits
\* and, later, PID_ and four hex digits, the whole pattern matched without
\* regard to letter case.
C19_CaseBlindPattern == Enumerated => OneSnapshotPerRecord(CaseBlind)

\* what holds: the markers VID_ and PID_ must be in capitals; only the hex
\* digits may be in either case
C19_CapitalMarkers == Enumerated => OneSnapshotPerRecord(CapitalMarkers)

\* a record with the markers in lower case gave no snapshot
C19_LowerMarkersDropped ==
    /\ Enumerated
    /\ scEnv.attached = <<Keyboard, LowerMarkers>>
    /\ Len(scRet.snapshots) = 1

-----------------------------------------------------------------------------
(* SpecClassify: classify_port of com_analyze.py applied to ports whose    *)
(* hardware id, description, identifiers and management class vary.        *)
(* A confidence is written in hundredths.                                  *)

\* upper(s): norm(s).upper()
upper(s) == Upper(Strip(s))

\* literal in text
Contains(text, literal) == \E i \in 1..Len(text) : MatchAt(text, i, literal)

\* Mutant: the VID/PID rule is tried before the Bluetooth rule.
classify_port_VidPidFirst(port, pnp) ==
    LET Decide(hw, desc) ==
            IF port.vid_hex # <<>> /\ port.pid_hex # <<>>
            THEN [kind |-> "USB", confidence |-> 92,
                  reasons |-> <<"VID/PID available (likely USB-serial)">>]
            ELSE IF \/ Contains(hw, <<"B", "T", "H", "E", "N", "U", "M">>) \/ Contains(hw, <<"B", "L", "U", "E", "T", "O", "O", "T", "H">>)
                    \/ Contains(desc, <<"R", "F", "C", "O", "M", "M">>) \/ Contains(desc, <<"B", "L", "U", "E", "T", "O", "O", "T", "H">>)
            THEN [kind |-> "Bluetooth", confidence |-> 95,
                  reasons |-> <<"hwid/desc indicates Bluetooth (BTHENUM/BLUETOOTH/RFCOMM)">>]
            ELSE IF StartsWith(hw, <<"U", "S", "B", "\\">>) \/ Contains(<<" ">> \o desc, <<" ", "U", "S", "B">>)
            THEN [kind |-> "USB", confidence |-> 75, reasons |-> <<"hwid/desc suggests USB">>]
            ELSE IF \/ StartsWith(hw, <<"A", "C", "P", "I", "\\">>) \/ StartsWith(hw, <<"P", "C", "I", "\\">>)
                    \/ Contains(hw, <<"P", "N", "P", "0", "5", "0", "1">>) \/ Contains(hw, <<"P", "N", "P", "0", "5", "0", "0">>)
            THEN [kind |-> "RS-232/PCI/ACPI", confidence |-> 85,
                  reasons |-> <<"hwid indicates ACPI/PCI standard serial">>]
            ELSE IF /\ pnp.present
                    /\ upper(pnp.pnp_class) = <<"P", "O", "R", "T", "S">>
                    /\ ~Contains(hw, <<"U", "S", "B", "\\">>)
                    /\ ~Contains(hw, <<"B", "T", "H", "E", "N", "U", "M">>)
            THEN [kind |-> "RS-232/PCI/ACPI", confidence |-> 60,
                  reasons |-> <<"PnPClass=Ports but not USB/Bluetooth">>]
            ELSE [kind |-> "Unknown", confidence |-> 30, reasons |-> <<"no strong indicators found">>]
    IN  Decide(upper(port.hwid), upper(port.description))

\* Mutant: the ACPI/PCI rule is tried before the USB rules.
classify_port_LegacyFirst(port, pnp) ==
    LET Decide(hw, desc) ==
            IF \/ Contains(hw, <<"B", "T", "H", "E", "N", "U", "M">>) \/ Contains(hw, <<"B", "L", "U", "E", "T", "O", "O", "T", "H">>)
               \/ Contains(desc, <<"R", "F", "C", "O", "M", "M">>) \/ Contains(desc, <<"B", "L", "U", "E", "T", "O", "O", "T", "H">>)
            THEN [kind |-> "Bluetooth", confidence |-> 95,
                  reasons |-> <<"hwid/desc indicates Bluetooth (BTHENUM/BLUETOOTH/RFCOMM)">>]
            ELSE IF \/ StartsWith(hw, <<"A", "C", "P", "I", "\\">>) \/ StartsWith(hw, <<"P", "C", "I", "\\">>)
                    \/ Contains(hw, <<"P", "N", "P", "0", "5", "0", "1">>) \/ Contains(hw, <<"P", "N", "P", "0", "5", "0", "0">>)
            THEN [kind |-> "RS-232/PCI/ACPI", confidence |-> 85,
                  reasons |-> <<"hwid indicates ACPI/PCI standard serial">>]
            ELSE IF port.vid_hex # <<>> /\ port.pid_hex # <<>>
            THEN [kind |-> "USB", confidence |-> 92,
                  reasons |-> <<"VID/PID available (likely USB-serial)">>]
            ELSE IF StartsWith(hw, <<"U", "S", "B", "\\">>) \/ Contains(<<" ">> \o desc, <<" ", "U", "S", "B">>)
            THEN [kind |-> "USB", confidence |-> 75, reasons |-> <<"hwid/desc suggests USB">>]
            ELSE IF /\ pnp.present
                    /\ upper(pnp.pnp_class) = <<"P", "O", "R", "T", "S">>
                    /\ ~Contains(hw, <<"U", "S", "B", "\\">>)
                    /\ ~Contains(hw, <<"B", "T", "H", "E", "N", "U", "M">>)
            THEN [kind |-> "RS-232/PCI/ACPI", confidence |-> 60,
                  reasons |-> <<"PnPClass=Ports but not USB/Bluetooth">>]
            ELSE [kind |-> "Unknown", confidence |-> 30, reasons |-> <<"no strong indicators found">>]
    IN  Decide(upper(port.hwid), upper(port.description))

\* classify_port(port, pnp): [kind, confidence, reasons]; pnp.present is
\* FALSE when no management record was found for the port (pnp is None)
classify_port(port, pnp) ==
    LET Decide(hw, desc) ==
            IF \/ Contains(hw, <<"B", "T", "H", "E", "N", "U", "M">>) \/ Contains(hw, <<"B", "L", "U", "E", "T", "O", "O", "T", "H">>)
               \/ Contains(desc, <<"R", "F", "C", "O", "M", "M">>) \/ Contains(desc, <<"B", "L", "U", "E", "T", "O", "O", "T", "H">>)
            THEN [kind |-> "Bluetooth", confidence |-> 95,
                  reasons |-> <<"hwid/desc indicates Bluetooth (BTHENUM/BLUETOOTH/RFCOMM)">>]
            ELSE IF port.vid_hex # <<>> /\ port.pid_hex # <<>>
            THEN [kind |-> "USB", confidence |-> 92,
                  reasons |-> <<"VID/PID available (likely USB-serial)">>]
            ELSE IF StartsWith(hw, <<"U", "S", "B", "\\">>) \/ Contains(<<" ">> \o desc, <<" ", "U", "S", "B">>)
            THEN [kind |-> "USB", confidence |-> 75, reasons |-> <<"hwid/desc suggests USB">>]
            ELSE IF \/ StartsWith(hw, <<"A", "C", "P", "I", "\\">>) \/ StartsWith(hw, <<"P", "C", "I", "\\">>)
                    \/ Contains(hw, <<"P", "N", "P", "0", "5", "0", "1">>) \/ Contains(hw, <<"P", "N", "P", "0", "5", "0", "0">>)
            THEN [kind |-> "RS-232/PCI/ACPI", confidence |-> 85,
                  reasons |-> <<"hwid indicates ACPI/PCI standard serial">>]
            ELSE IF /\ pnp.present
                    /\ upper(pnp.pnp_class) = <<"P", "O", "R", "T", "S">>
                    /\ ~Contains(hw, <<"U", "S", "B", "\\">>)
                    /\ ~Contains(hw, <<"B", "T", "H", "E", "N", "U", "M">>)
            THEN [kind |-> "RS-232/PCI/ACPI", confidence |-> 60,
                  reasons |-> <<"PnPClass=Ports but not USB/Bluetooth">>]
            ELSE [kind |-> "Unknown", confidence |-> 30, reasons |-> <<"no strong indicators found">>]
    IN  Decide(upper(port.hwid), upper(port.description))

\* hardware ids as pyserial reports them
ClassifyHwids ==
    { <<>>, <<"C", "O", "M", "1">>, <<"B", "T", "H", "E", "N", "U", "M", "\\", "{", "1", "1", "0", "1", "}">>, <<"b", "t", "h", "e", "n", "u", "m", "\\", "d", "e", "v">>, <<"B", "l", "u", "e", "t", "o", "o", "t", "h", "\\", "1">>, <<"R", "F", "C", "O", "M", "M", "\\", "1">>,
      <<"U", "S", "B", "\\", "V", "I", "D", "_", "0", "4", "0", "3">>, <<" ", "u", "s", "b", "\\", "x">>, <<"A", "C", "P", "I", "\\", "P", "N", "P", "0", "5", "0", "1", "\\", "1">>, <<"P", "C", "I", "\\", "V", "E", "N", "_", "1">>, <<"R", "O", "O", "T", "\\", "P", "N", "P", "0", "5", "0", "0">>,
      <<"R", "O", "O", "T", "\\", "U", "S", "B", "\\", "1">> }

ClassifyDescriptions ==
    { <<>>, <<"S", "e", "r", "i", "a", "l">>, <<"R", "f", "c", "o", "m", "m", " ", "l", "i", "n", "k">>, <<"B", "T", "H", "E", "N", "U", "M", " ", "d", "e", "v">>, <<"b", "l", "u", "e", "t", "o", "o", "t", "h">>, <<"U", "S", "B", " ", "S", "e", "r", "i", "a", "l">>,
      <<"M", "y", "U", "S", "B">>, <<"S", "t", "d", " ", "u", "s", "b", " ", "p", "o", "r", "t">> }

ClassifyPnps ==
    { [present |-> FALSE, pnp_class |-> <<>>], [present |-> TRUE, pnp_class |-> <<"P", "o", "r", "t", "s">>],
      [present |-> TRUE, pnp_class |-> <<"P", "O", "R", "T", "S", " ">>], [present |-> TRUE, pnp_class |-> <<"U", "S", "B">>] }

ClassifyPorts ==
    {[hwid |-> hwid, description |-> description, vid_hex |-> vid_hex, pid_hex |-> pid_hex] :
        hwid \in ClassifyHwids, description \in ClassifyDescriptions,
        vid_hex \in {<<>>, <<"0", "4", "0", "3">>}, pid_hex \in {<<>>, <<"6", "0", "0", "1">>}}

\* classify_port(port, pnp)
ClassifyCall ==
    /\ scPc = "idle"
    /\ \E port \in ClassifyPorts, pnp \in ClassifyPnps :
        /\ scEnv' = [platform |-> "windows", fault |-> "none", attached |-> <<>>,
                     port |-> port, pnp |-> pnp]
        /\ scRet' = [NoScanRet EXCEPT !.value = classify_port(port, pnp)]
    /\ scCall' = [NoScanCall EXCEPT !.op = "classify_port"]
    /\ scPc' = "done"
    /\ UNCHANGED <<hexVars, idVars, matchVars, svcVars>>

ClassifyNext ==
    \/ ClassifyCall
    \/ ScanReturn

SpecClassify == ScanInit /\ [][ClassifyNext]_vars

Classified == scPc = "done" /\ scCall.op = "classify_port"

Gives(kind, confidence) == scRet.value.kind = kind /\ scRet.value.confidence = confidence

BluetoothTokens == {<<"B", "T", "H", "E", "N", "U", "M">>, <<"B", "L", "U", "E", "T", "O", "O", "T", "H">>, <<"R", "F", "C", "O", "M", "M">>}

\* C21: classify_port returns Bluetooth with confidence 0.95 whenever one
\* of the tokens BTHENUM, BLUETOOTH, RFCOMM occurs in the hardware id or in
\* the description, in any letter case.
C21_AnyTokenAnyField ==
    Classified =>
        ( (\E token \in BluetoothTokens :
                \/ Contains(upper(scEnv.port.hwid), token)
                \/ Contains(upper(scEnv.port.description), token))
            => Gives("Bluetooth", 95) )

\* what holds: BTHENUM counts in the hardware id only, RFCOMM in the
\* description only, BLUETOOTH in both
C21_FourCombinations ==
    Classified =>
        ( ( \/ Contains(upper(scEnv.port.hwid), <<"B", "T", "H", "E", "N", "U", "M">>)
            \/ Contains(upper(scEnv.port.hwid), <<"B", "L", "U", "E", "T", "O", "O", "T", "H">>)
            \/ Contains(upper(scEnv.port.description), <<"R", "F", "C", "O", "M", "M">>)
            \/ Contains(upper(scEnv.port.description), <<"B", "L", "U", "E", "T", "O", "O", "T", "H">>) )
            <=> Gives("Bluetooth", 95) )

\* RFCOMM in the hardware id alone did not give Bluetooth
C21_RfcommInHwid ==
    /\ Classified
    /\ scEnv.port.hwid = <<"R", "F", "C", "O", "M", "M", "\\", "1">>
    /\ scEnv.port.description = <<>>
    /\ ~Gives("Bluetooth", 95)

\* C22: a port whose hardware id contains BTHENUM is Bluetooth with
\* confidence 0.95, whatever other indicators are present.
C22_BthenumDecides ==
    (Classified /\ Contains(upper(scEnv.port.hwid), <<"B", "T", "H", "E", "N", "U", "M">>)) => Gives("Bluetooth", 95)

\* BTHENUM together with VID/PID, USB in the description and class Ports
C22_Witness ==
    /\ Classified
    /\ scEnv.port.hwid = <<"b", "t", "h", "e", "n", "u", "m", "\\", "d", "e", "v">>
    /\ scEnv.port.vid_hex # <<>> /\ scEnv.port.pid_hex # <<>>
    /\ scEnv.port.description = <<"U", "S", "B", " ", "S", "e", "r", "i", "a", "l">>
    /\ scEnv.pnp.pnp_class = <<"P", "o", "r", "t", "s">>
    /\ Gives("Bluetooth", 95)

\* USB begins a word of the description
UsbToken(desc) == Contains(<<" ">> \o desc, <<" ", "U", "S", "B">>)

BluetoothRule(hw, desc) ==
    \/ Contains(hw, <<"B", "T", "H", "E", "N", "U", "M">>) \/ Contains(hw, <<"B", "L", "U", "E", "T", "O", "O", "T", "H">>)
    \/ Contains(desc, <<"R", "F", "C", "O", "M", "M">>) \/ Contains(desc, <<"B", "L", "U", "E", "T", "O", "O", "T", "H">>)

LegacyId(hw) ==
    \/ StartsWith(hw, <<"A", "C", "P", "I", "\\">>) \/ StartsWith(hw, <<"P", "C", "I", "\\">>)
    \/ Contains(hw, <<"P", "N", "P", "0", "5", "0", "1">>) \/ Contains(hw, <<"P", "N", "P", "0", "5", "0", "0">>)

PortsClass(pnp) == pnp.present /\ upper(pnp.pnp_class) = <<"P", "O", "R", "T", "S">>

\* the cascade after the Bluetooth rule; Foreign(hw) is the condition on
\* the hardware id under which class Ports gives legacy-serial/0.60
Cascade(port, pnp, hw, desc, Foreign(_)) ==
    IF BluetoothRule(hw, desc) THEN <<"Bluetooth", 95>>
    ELSE IF port.vid_hex # <<>> /\ port.pid_hex # <<>> THEN <<"USB", 92>>
    ELSE IF StartsWith(hw, <<"U", "S", "B", "\\">>) \/ UsbToken(desc) THEN <<"USB", 75>>
    ELSE IF LegacyId(hw) THEN <<"RS-232/PCI/ACPI", 85>>
    ELSE IF PortsClass(pnp) /\ Foreign(hw) THEN <<"RS-232/PCI/ACPI", 60>>
    ELSE <<"Unknown", 30>>

NotRooted(hw) == ~StartsWith(hw, <<"U", "S", "B", "\\">>) /\ ~StartsWith(hw, <<"B", "T", "H", "E", "N", "U", "M">>)

NotContained(hw) == ~Contains(hw, <<"U", "S", "B", "\\">>) /\ ~Contains(hw, <<"B", "T", "H", "E", "N", "U", "M">>)

FollowsCascade(Foreign(_)) ==
    /\ <<scRet.value.kind, scRet.value.confidence>> =
            Cascade(scEnv.port, scEnv.pnp, upper(scEnv.port.hwid), upper(scEnv.port.description), Foreign)
    /\ scRet.value.confidence \in {95, 92, 75, 85, 60, 30}
    /\ scRet.value.kind = "Unknown" => scRet.value.reasons = <<"no strong indicators found">>

\* C23 as stated: classify_port is a strictly ordered cascade; after the
\* Bluetooth rule, VID and PID present gives USB/0.92, else a USB-rooted
\* hardware id or the token USB in the description gives USB/0.75, else an
\* ACPI/PCI-rooted hardware id or a legacy serial id gives legacy/0.85, else
\* class Ports with a hardware id that is neither USB- nor Bluetooth-rooted
\* gives legacy/0.60, else Unknown/0.30; the first matching rule decides.
C23_CascadeRooted == Classified => FollowsCascade(NotRooted)

\* C23 amended: the same cascade, where the class Ports rule requires a
\* hardware id that contains neither USB\ nor BTHENUM anywhere (not only at
\* its start), and the USB token of the description is USB at the start of
\* the description or after a blank.
C23_CascadeContained == Classified => FollowsCascade(NotContained)

\* VID and PID present together with an ACPI-rooted hardware id: USB/0.92
C23_Witness ==
    /\ Classified
    /\ scEnv.port.hwid = <<"A", "C", "P", "I", "\\", "P", "N", "P", "0", "5", "0", "1", "\\", "1">>
    /\ scEnv.port.vid_hex # <<>> /\ scEnv.port.pid_hex # <<>>
    /\ PortsClass(scEnv.pnp)
    /\ Gives("USB", 92)

\* class Ports with USB\ inside the hardware id: Unknown
C23_UsbInside ==
    /\ Classified
    /\ scEnv.port.hwid = <<"R", "O", "O", "T", "\\", "U", "S", "B", "\\", "1">>
    /\ PortsClass(scEnv.pnp)
    /\ Gives("Unknown", 30)

-----------------------------------------------------------------------------
(* SpecTransport: UsbSnapshotService.send_serial_command with its read     *)
(* arguments, on a serial port whose calls may fail.                       *)

\* the call of the with-block that raises SerialException, if any
TransportFaults ==
    {"none", "open", "reset_input_buffer", "reset_output_buffer", "write", "flush", "read"}

ReadBytes == {<<>>, <<0>>, <<0 - 1>>, <<4>>}

ReadUntils == {NoneVal, StrVal(<<>>), StrVal(<<"\r">>)}

TransportInit ==
    /\ svPlatform = "posix"
    /\ svBleModule = FALSE
    /\ svStore = MissingStore
    /\ svWorld = NoWorld
    /\ svCall = NoCall
    /\ svRet = NoRet
    /\ svPc = "idle"
    /\ HexIdle /\ IdIdle /\ MatchIdle /\ ScanIdle

\* service.send_serial_command(vid, pid, command, serial=..., refresh=...,
\* read_bytes=..., read_until=...)
TransportCall ==
    /\ svPc = "idle"
    /\ \E target \in Targets, refresh_flag \in BOOLEAN, serial_fault \in TransportFaults,
          read_bytes \in ReadBytes, read_until \in ReadUntils :
        \E observed \in LookupWorlds(refresh_flag) :
            \E r \in {send_serial_command_with([observed EXCEPT !.serial_fault = serial_fault], svStore,
                                               target[1], target[2], target[3], refresh_flag,
                                               read_bytes, read_until)} :
                /\ svWorld' = [observed EXCEPT !.serial_fault = serial_fault]
                /\ svCall' = [op |-> "send_serial_command", vid |-> target[1], pid |-> target[2],
                              serial |-> target[3], refresh |-> refresh_flag,
                              read_bytes |-> read_bytes, read_until |-> read_until]
                /\ svStore' = r.store
                /\ svRet' = [NoRet EXCEPT !.kind = IF r.error # <<>> THEN "error" ELSE "sent",
                                          !.raised = r.raised, !.error = r.error,
                                          !.port = r.port, !.io = r.io]
    /\ svPc' = "done"
    /\ UNCHANGED <<svPlatform, svBleModule>>
    /\ UNCHANGED <<hexVars, idVars, matchVars, scanVars>>

TransportNext ==
    \/ TransportCall
    \/ Return

SpecTransport == TransportInit /\ [][TransportNext]_vars

\* a call that reached the transport has ended
ReachedTransport == svPc = "done" /\ svCall.op = "send_serial_command" /\ svRet.io # <<>>

Times(io, event) == Cardinality({k \in 1..Len(io) : io[k] = event})

Before(io, first, second) ==
    \A i, j \in 1..Len(io) : (io[i] = first /\ io[j] = second) => i < j

\* the events follow one another in the order of the list
InOrder(io, order) ==
    \A a, b \in 1..Len(order) :
        a < b => Before(io, order[a], order[b])

\* the names of the live ports of the host
LivePortNames == {get_com_ports(svWorld)[k].device : k \in 1..Len(get_com_ports(svWorld))}

C24_ReadUntilWins ==
    /\ ReachedTransport
    /\ svCall.read_bytes = <<4>>
    /\ svCall.read_until = StrVal(<<>>)
    /\ svRet.io = <<"open", "reset_input_buffer", "reset_output_buffer", "write", "flush", "read_until", "close">>

-----------------------------------------------------------------------------
(* SpecDeviceScan: DeviceScanner.scan on a host with up to MaxDevices      *)
(* attached things, or with a device whose descriptor walk meets a         *)
(* failure, with and without the BLE scanner module.                       *)

\* the BLE side of a host: module missing, scan raising, scan returning
BleSides == {<<"absent", <<>> >>, <<"fails", <<>> >>, <<"ok", <<>> >>, <<"ok", <<Beacon>> >>}

DeviceScanHosts ==
    {[platform |-> h.platform, fault |-> h.fault, attached |-> h.attached,
      ble |-> b[1], ble_devices |-> b[2]] : h \in ScanHosts \cup WalkHosts, b \in BleSides}

\* DeviceScanner().scan() on some host
DeviceScanCall ==
    /\ scPc = "idle"
    /\ \E host \in DeviceScanHosts :
        \E r \in {DeviceScanner_scan(host)} :
            /\ scEnv' = host
            /\ scRet' = [raised |-> r.raised, snapshots |-> r.snapshots,
                         error |-> r.error, value |-> FALSE]
    /\ scCall' = [NoScanCall EXCEPT !.op = "device_scan"]
    /\ scPc' = "done"
    /\ UNCHANGED <<hexVars, idVars, matchVars, svcVars>>

DeviceScanNext == DeviceScanCall \/ ScanReturn

SpecDeviceScan == ScanInit /\ [][DeviceScanNext]_vars

DeviceScanDone == scPc = "done" /\ scCall.op = "device_scan"

\* what the combined scan owes to a USB result and the BLE side of the host
Degrades(usb) ==
    /\ ~scRet.raised
    /\ scEnv.ble \in {"absent", "fails"} =>
            /\ scRet.snapshots = usb.snapshots
            /\ \A k \in 1..Len(scRet.snapshots) : scRet.snapshots[k].device_type # "ble"
            /\ \E ble_error \in {<<"BLE scanner module required">>, <<"BLE scan failed">>} :
                    /\ (ble_error = <<"BLE scanner module required">>) <=> (scEnv.ble = "absent")
                    /\ scRet.error = IF usb.error = <<>> THEN ble_error
                                     ELSE <<"USB: ">> \o usb.error \o <<" / BLE: ">> \o ble_error
    /\ scEnv.ble = "ok" =>
            /\ Len(scRet.snapshots) = Len(usb.snapshots) + Len(scEnv.ble_devices)
            /\ SubSeq(scRet.snapshots, 1, Len(usb.snapshots)) = usb.snapshots
            /\ \A k \in 1..Len(scEnv.ble_devices) :
                    /\ scRet.snapshots[Len(usb.snapshots) + k].device_type = "ble"
                    /\ scRet.snapshots[Len(usb.snapshots) + k].ble_address
                            = OrEmpty(scEnv.ble_devices[k].address)
            /\ scRet.error = usb.error

\* C25: when the BLE collaborator is absent or its scan fails, scan does not
\* raise, returns exactly the USB scanner's snapshots and an error text that
\* reports the BLE condition (combined with the USB error when there is
\* one); when BLE succeeds the list is the USB snapshots followed by the BLE
\* snapshots.
C25_BleDegrades ==
    DeviceScanDone => Degrades(UsbScanner_scan(scEnv))

\* the same whenever the USB scanner itself returns
C25_WhenUsbReturns ==
    (DeviceScanDone /\ ~UsbScanner_scan(scEnv).raised) => Degrades(UsbScanner_scan(scEnv))

\* the module is missing and the combined scan raised
C25_RaisedWithoutBle ==
    /\ DeviceScanDone
    /\ scEnv.ble = "absent"
    /\ scRet.raised

\* both scanners reported an error and the USB error snapshot is returned
C25_BothErrors ==
    /\ DeviceScanDone
    /\ scEnv.ble = "fails"
    /\ scEnv.fault = "usb_error"
    /\ Len(scRet.snapshots) = 1
    /\ scRet.error = <<"USB: ", "USB access failed", " / BLE: ", "BLE scan failed">>

-----------------------------------------------------------------------------
(* SpecPortCache: ComPortManager.get_com_ports_cached while serial ports   *)
(* come and go.  The scanner variables hold the process: scEnv has the     *)
(* platform, the live ports and cache, the class attribute _ports_cache    *)
(* (<<>> for None, <<list>> once filled).                                  *)

\* Mutant: an empty stored list counts as a cache that was never filled.
get_com_ports_cached_RefillWhenEmpty(host, cache, force_refresh) ==
    IF force_refresh \/ cache = <<>> \/ cache = << <<>> >>
    THEN [cache |-> <<get_com_ports(host)>>, value |-> get_com_ports(host), enumerated |-> TRUE]
    ELSE [cache |-> cache, value |-> cache[1], enumerated |-> FALSE]

\* ComPortManager.get_com_ports_cached
get_com_ports_cached(host, cache, force_refresh) ==
    IF force_refresh \/ cache = <<>>
    THEN [cache |-> <<get_com_ports(host)>>, value |-> get_com_ports(host), enumerated |-> TRUE]
    ELSE [cache |-> cache, value |-> cache[1], enumerated |-> FALSE]

CacheInit ==
    /\ scEnv \in {[platform |-> platform, ports |-> ports, cache |-> <<>>] :
                    platform \in Platforms, ports \in LivePortLists}
    /\ scCall = NoScanCall
    /\ scRet = NoScanRet
    /\ scPc = "idle"
    /\ HexIdle /\ IdIdle /\ MatchIdle /\ SvcIdle

\* a serial port is plugged in or removed
PortsChange ==
    /\ scPc = "idle"
    /\ \E ports \in LivePortLists \ {scEnv.ports} :
        scEnv' = [scEnv EXCEPT !.ports = ports]
    /\ UNCHANGED <<scCall, scRet, scPc>>
    /\ UNCHANGED <<hexVars, idVars, matchVars, svcVars>>

\* ComPortManager.get_com_ports_cached(force_refresh)
CachedCall ==
    /\ scPc = "idle"
    /\ \E force_refresh \in BOOLEAN :
        \E r \in {get_com_ports_cached(scEnv, scEnv.cache, force_refresh)} :
            /\ scEnv' = [scEnv EXCEPT !.cache = r.cache]
            /\ scCall' = [op |-> "get_com_ports_cached", force_refresh |-> force_refresh]
            /\ scRet' = [raised |-> FALSE, snapshots |-> <<>>, error |-> <<>>,
                         value |-> r.value, enumerated |-> r.enumerated]
    /\ scPc' = "done"
    /\ UNCHANGED <<hexVars, idVars, matchVars, svcVars>>

\* the caller takes the list; the cache stays
CacheReturn ==
    /\ scPc = "done"
    /\ scCall' = NoScanCall
    /\ scRet' = NoScanRet
    /\ scPc' = "idle"
    /\ UNCHANGED scEnv
    /\ UNCHANGED <<hexVars, idVars, matchVars, svcVars>>

CacheNext == PortsChange \/ CachedCall \/ CacheReturn

SpecPortCache == CacheInit /\ [][CacheNext]_vars

\* a step that is a call of get_com_ports_cached
CachedStep == scPc = "idle" /\ scPc' = "done" /\ scCall'.op = "get_com_ports_cached"

\* C26: a call with force_refresh=true always enumerates afresh, stores the
\* list and returns it; a call with force_refresh=false enumerates only if
\* the cache has never been filled and otherwise returns the stored list even
\* if the live ports have changed since; nothing else changes the cache, so
\* it always equals the most recent enumeration made through the operation.
C26_CacheProtocol ==
    [][/\ CachedStep =>
            /\ scRet'.enumerated <=> (scCall'.force_refresh \/ scEnv.cache = <<>>)
            /\ scRet'.enumerated =>
                    /\ scRet'.value = get_com_ports(scEnv)
                    /\ scEnv'.cache = <<scRet'.value>>
            /\ ~scRet'.enumerated =>
                    /\ scEnv'.cache = scEnv.cache
                    /\ scRet'.value = scEnv.cache[1]
            /\ scEnv'.ports = scEnv.ports
       /\ ~CachedStep => scEnv'.cache = scEnv.cache]_vars

\* a call without force_refresh returned the stored empty list although a
\* port is live now
C26_Witness ==
    /\ scPc = "done"
    /\ scCall.op = "get_com_ports_cached"
    /\ ~scCall.force_refresh
    /\ ~scRet.enumerated
    /\ scRet.value = <<>>
    /\ scEnv.cache = << <<>> >>
    /\ get_com_ports(scEnv) # <<>>

\* a forced call replaced a stored list by the live one
C26_Forced ==
    /\ scPc = "done"
    /\ scCall.op = "get_com_ports_cached"
    /\ scCall.force_refresh
    /\ scRet.value = get_com_ports(scEnv)
    /\ Len(scRet.value) = 2
    /\ scEnv.cache = <<scRet.value>>

-----------------------------------------------------------------------------
(* SpecViewMatch: the port matching of the view model next to the port     *)
(* matching of the service, on the same snapshot and the same port list.   *)

\* "not value" for a value that is None or a string
IsFalsy(value) == value.t = "none" \/ (value.t = "str" /\ value.s = <<>>)

\* a == b for a value (None or string) and a string attribute
EqualsText(value, text) == value.t = "str" /\ value.s = text

\* UsbDevicesViewModel._match_com_port, com_ports being ports
RECURSIVE view_match_com_port(_, _)
view_match_com_port(snapshot, ports) ==
    IF snapshot.device_type # "usb" THEN NoneVal
    ELSE IF ports = <<>> THEN NoneVal
    ELSE IF /\ EqualsText(Head(ports).vid, snapshot.vid)
            /\ EqualsText(Head(ports).pid, snapshot.pid)
            /\ (IsFalsy(snapshot.serial) \/ Head(ports).serial_number = snapshot.serial)
         THEN Head(ports).device
         ELSE view_match_com_port(snapshot, Tail(ports))

\* snapshots as the descriptor path builds them (hex(idVendor), the serial
\* string, or the unavailable marker when it cannot be read), next to the
\* other spellings
ViewSnapshots ==
    MatchSnapshots
    \cup { [UsbDeviceSnapshot(Hex(1027), Hex(24577)) EXCEPT !.serial = ser] :
            ser \in {NoneVal, StrVal(<<"A">>), StrVal(<<"a">>), StrVal(Unavailable)} }

ViewMatchInit ==
    /\ mSnap \in ViewSnapshots
    /\ mPorts = <<>>
    /\ mRet = NoneVal
    /\ mPc = "idle"
    /\ HexIdle /\ IdIdle /\ ScanIdle /\ SvcIdle

\* both matchings applied to the snapshot and one port list
ViewMatchCall ==
    /\ mPc = "idle"
    /\ \E ports \in PortLists :
          /\ mPorts' = ports
          /\ mRet' = [service |-> _match_com_port(mSnap, ports),
                      view |-> view_match_com_port(mSnap, ports)]
    /\ mPc' = "done"
    /\ UNCHANGED mSnap
    /\ UNCHANGED <<hexVars, idVars, scanVars, svcVars>>

ViewMatchNext == ViewMatchCall

SpecViewMatch == ViewMatchInit /\ [][ViewMatchNext]_vars

\* C27: the view model's port matching and the service's port matching
\* return the same port for every USB snapshot and every port list.
C27_SamePort ==
    mPc = "done" => mRet.view = mRet.service

\* they agree when the snapshot has the spelling of the port enumeration and
\* all serials are absent or capital, without blanks or markers
C27_SamePortSameSpelling ==
    (/\ mPc = "done"
     /\ mSnap.vid = Hex(1027)
     /\ mSnap.serial \in {NoneVal, StrVal(<<"A">>)}
     /\ \A k \in 1..Len(mPorts) : mPorts[k].serial_number # StrVal(<<"a">>))
        => mRet.view = mRet.service

\* the serial string could not be read: the service names the port, the view
\* model none
C27_UnreadableSerial ==
    /\ mPc = "done"
    /\ mSnap.vid = Hex(1027)
    /\ mSnap.serial = StrVal(Unavailable)
    /\ mRet.service = StrVal(ComNames[1])
    /\ mRet.view = NoneVal

\* the same port found by both
C27_Agree ==
    /\ mPc = "done"
    /\ mSnap.serial = StrVal(<<"A">>)
    /\ mRet.service = StrVal(ComNames[2])
    /\ mRet.view = StrVal(ComNames[2])

-----------------------------------------------------------------------------
(* The order of the steps of refresh and what the store holds after it,    *)
(* under SpecRefresh.                                                      *)

\* a refresh has just ended
RefreshStep == svPc = "idle" /\ RefreshDone'

\* C28: within refresh the steps are scan, placeholder substitution,
\* topology annotation, save, return; after any sequence of refresh calls
\* whose last save succeeded, load returns exactly the snapshots the last
\* refresh returned, nothing being retained from an earlier scan; a find with
\* refresh=false never modifies the store.
C28_RefreshThenLoad ==
    [][/\ RefreshStep =>
            /\ svRet'.raised => svStore' = svStore
            /\ ~svRet'.raised =>
                    /\ svRet'.snapshots # <<>>
                    /\ svWorld'.write_fault = "none" =>
                            /\ svStore'.kind = "json"
                            /\ svStore'.data = [k \in 1..Len(svRet'.snapshots) |-> to_dict(svRet'.snapshots[k])]
                            /\ ~load_raises(svStore')
                            /\ load(svStore') = svRet'.snapshots
       /\ StoredLookupStep => svStore' = svStore
       /\ (svPc = "done" /\ svPc' = "idle") => svStore' = svStore]_vars

\* a refresh on Windows returned one annotated snapshot, and the store holds
\* exactly that one
C28_Witness ==
    /\ RefreshDone
    /\ ~svRet.raised
    /\ svWorld.platform = "windows"
    /\ svWorld.write_fault = "none"
    /\ Len(svRet.snapshots) = 1
    /\ svRet.snapshots[1].usb_controllers # <<>>
    /\ Len(svStore.data) = 1
    /\ load(svStore) = svRet.snapshots

\* a placeholder was stored
C28_PlaceholderStored ==
    /\ RefreshDone
    /\ ~svRet.raised
    /\ svWorld.write_fault = "none"
    /\ IsPlaceholder(svRet.snapshots, DefaultMessage)
    /\ load(svStore) = svRet.snapshots

-----------------------------------------------------------------------------
(* SpecWrapper: the module-level get_com_port_for_device of                *)
(* usb_util_gui.py.  scEnv holds the process: singleton tells whether      *)
(* _SERVICE_SINGLETON is set, created counts the service instances made.   *)
(* A call's events are the calls it makes on the service: "lookup" for     *)
(* service.get_com_port_for_device, "scan" for service.refresh, whether    *)
(* called by the wrapper or by the lookup.                                 *)

\* the calls stop once this many service instances exist
MaxInstances == 2

\* _get_service_singleton: the process after the call
_get_service_singleton(process) ==
    IF process.singleton THEN process
    ELSE [process EXCEPT !.singleton = TRUE, !.created = process.created + 1]

\* Mutant: the fallback scan is made after a forced scan that found no port.
module_get_com_port_for_device_AlwaysFallBack(host, store, vid, pid, serial, refresh_flag) ==
    LET Outcome(raised, port, new_store, events) ==
            [raised |-> raised, port |-> port, store |-> new_store, events |-> events]
        FirstEvents == IF refresh_flag THEN <<"lookup", "scan">> ELSE <<"lookup">>
        Second(second, events) == Outcome(second.raised, second.port, second.store, events)
        Rescanned(scanned) ==
            IF scanned.raised THEN Outcome(TRUE, NoneVal, scanned.store, FirstEvents \o <<"scan">>)
            ELSE Second(get_com_port_for_device(host, scanned.store, vid, pid, serial, FALSE),
                        FirstEvents \o <<"scan", "lookup">>)
        First(first) ==
            IF first.raised THEN Outcome(TRUE, NoneVal, first.store, FirstEvents)
            ELSE IF Truthy(first.port)
            THEN Outcome(FALSE, first.port, first.store, FirstEvents)
            ELSE Rescanned(refresh(host, first.store))
    IN  First(get_com_port_for_device(host, store, vid, pid, serial, refresh_flag))

\* usb_util_gui.get_com_port_for_device: [raised, port, store, events]
module_get_com_port_for_device(host, store, vid, pid, serial, refresh_flag) ==
    LET Outcome(raised, port, new_store, events) ==
            [raised |-> raised, port |-> port, store |-> new_store, events |-> events]
        FirstEvents == IF refresh_flag THEN <<"lookup", "scan">> ELSE <<"lookup">>
        Second(second, events) == Outcome(second.raised, second.port, second.store, events)
        Rescanned(scanned) ==
            IF scanned.raised THEN Outcome(TRUE, NoneVal, scanned.store, FirstEvents \o <<"scan">>)
            ELSE Second(get_com_port_for_device(host, scanned.store, vid, pid, serial, FALSE),
                        FirstEvents \o <<"scan", "lookup">>)
        First(first) ==
            IF first.raised THEN Outcome(TRUE, NoneVal, first.store, FirstEvents)
            ELSE IF Truthy(first.port) \/ refresh_flag
            THEN Outcome(FALSE, first.port, first.store, FirstEvents)
            ELSE Rescanned(refresh(host, first.store))
    IN  First(get_com_port_for_device(host, store, vid, pid, serial, refresh_flag))

NoProcess == [platform |-> "windows", fault |-> "none", attached |-> <<>>,
              singleton |-> FALSE, created |-> 0]

WrapperInit ==
    /\ svPlatform \in Platforms
    /\ svBleModule \in BOOLEAN
    /\ svStore \in {MissingStore, [kind |-> "undecodable", data |-> <<>>]}
    /\ svWorld = NoWorld
    /\ svCall = NoCall
    /\ svRet = NoRet
    /\ svPc = "idle"
    /\ scEnv = NoProcess
    /\ scCall = NoScanCall
    /\ scRet = NoScanRet
    /\ scPc = "idle"
    /\ HexIdle /\ IdIdle /\ MatchIdle

\* get_com_port_for_device(vid, pid, serial, refresh=...) of the module
WrapperCall ==
    /\ svPc = "idle"
    /\ scEnv.created < MaxInstances
    /\ \E target \in Targets, refresh_flag \in BOOLEAN :
        \E world \in LookupWorlds(TRUE) :
            \E r \in {module_get_com_port_for_device(world, svStore, target[1], target[2],
                                                     target[3], refresh_flag)} :
                /\ svWorld' = world
                /\ svCall' = [op |-> "module_get_com_port_for_device", vid |-> target[1],
                              pid |-> target[2], serial |-> target[3], refresh |-> refresh_flag]
                /\ svStore' = r.store
                /\ svRet' = [kind |-> "port", raised |-> r.raised, snapshots |-> <<>>,
                             error |-> <<>>, connections |-> <<>>, port |-> r.port,
                             io |-> <<>>, events |-> r.events]
    /\ scEnv' = _get_service_singleton(scEnv)
    /\ svPc' = "done"
    /\ UNCHANGED <<svPlatform, svBleModule, scCall, scRet, scPc>>
    /\ UNCHANGED <<hexVars, idVars, matchVars>>

\* the caller takes the port; the process and the store stay
WrapperReturn ==
    /\ svPc = "done"
    /\ svWorld' = NoWorld
    /\ svCall' = NoCall
    /\ svRet' = NoRet
    /\ svPc' = "idle"
    /\ UNCHANGED <<svPlatform, svBleModule, svStore>>
    /\ UNCHANGED <<hexVars, idVars, matchVars, scanVars>>

WrapperNext == WrapperCall \/ WrapperReturn

SpecWrapper == WrapperInit /\ [][WrapperNext]_vars

\* a call of the module-level function has just ended
WrapperStep == svPc = "idle" /\ svPc' = "done" /\ svCall'.op = "module_get_com_port_for_device"

\* what the call owes to the outcome of its first lookup
AfterFirstLookup(first) ==
    /\ Times(svRet'.events, "scan") <= 1
    /\ svCall'.refresh =>
            /\ svRet'.events = <<"lookup", "scan">>
            /\ svRet'.raised = first.raised
            /\ svRet'.port = first.port
    /\ (~svCall'.refresh /\ ~first.raised /\ Truthy(first.port)) =>
            /\ svRet'.events = <<"lookup">>
            /\ svStore' = svStore
            /\ svRet'.port = first.port
            /\ ~svRet'.raised
    /\ (~svCall'.refresh /\ ~first.raised /\ ~Truthy(first.port)) =>
            /\ Times(svRet'.events, "scan") = 1
            /\ svStore' = refresh(svWorld', svStore).store
            /\ ~svRet'.raised => svRet'.events = <<"lookup", "scan", "lookup">>
            /\ svRet'.raised => svRet'.events = <<"lookup", "scan">>

\* C29: with refresh=false, when the first lookup against the store resolves
\* a port no scan is made and the store is not rewritten; when it resolves
\* none exactly one scan is made and the lookup is repeated exactly once;
\* with refresh=true exactly one scan is made and no fallback scan.  At most
\* one scan happens per call and the service is created at most once per
\* process.
C29_AtMostOneScan ==
    [][/\ WrapperStep =>
            AfterFirstLookup(get_com_port_for_device(svWorld', svStore, svCall'.vid, svCall'.pid,
                                                     svCall'.serial, svCall'.refresh))
       /\ scEnv'.created <= 1
       /\ scEnv.singleton => (scEnv'.singleton /\ scEnv'.created = scEnv.created)]_vars

\* the stored snapshots resolved no port, one scan was made and the second
\* lookup found the port
C29_Witness ==
    /\ svPc = "done"
    /\ svCall.op = "module_get_com_port_for_device"
    /\ ~svCall.refresh
    /\ svRet.events = <<"lookup", "scan", "lookup">>
    /\ Truthy(svRet.port)
    /\ scEnv.created = 1

\* a forced scan that found no port was not repeated
C29_NoFallbackAfterRefresh ==
    /\ svPc = "done"
    /\ svCall.op = "module_get_com_port_for_device"
    /\ svCall.refresh
    /\ ~svRet.raised
    /\ svRet.port = NoneVal
    /\ svRet.events = <<"lookup", "scan">>

\* the store resolved the port: no scan
C29_Resolved ==
    /\ svPc = "done"
    /\ svCall.op = "module_get_com_port_for_device"
    /\ ~svCall.refresh
    /\ svRet.events = <<"lookup">>
    /\ Truthy(svRet.port)

-----------------------------------------------------------------------------
(* SpecViewModel: UsbDevicesViewModel (ui/view_model.py).  scEnv holds the *)
(* view model: snapshots, com_ports, selected_index and _last_error;       *)
(* loaded tells whether load_initial has been called.  The service         *)
(* variables hold the service the view model refreshes through.            *)

\* the characters of the compared texts, in code point order
CharOrder ==
    <<" ", "-", "0", "1", "2", "3", "4", "5", "6", "7", "8", "9", ":", "A", "B", "E", "L",
      "a", "b", "c", "d", "e", "f", "n", "o", "r", "s", "x", "u4E0D", "u53D6", "u53EF", "u5F97">>

CharRank(c) == CHOOSE k \in 1..Len(CharOrder) : CharOrder[k] = c

\* left < right for two texts
RECURSIVE LessText(_, _)
LessText(left, right) ==
    IF right = <<>> THEN FALSE
    ELSE IF left = <<>> THEN TRUE
    ELSE IF Head(left) # Head(right) THEN CharRank(Head(left)) < CharRank(Head(right))
    ELSE LessText(Tail(left), Tail(right))

\* UsbDeviceSnapshot.key
key(self) ==
    IF self.device_type = "ble"
    THEN <<"B", "L", "E", ":">> \o (IF self.ble_address # <<>> THEN self.ble_address
                                    ELSE IF self.ble_name # <<>> THEN self.ble_name
                                    ELSE <<"-">>)
    ELSE self.vid \o <<":">> \o self.pid

\* UsbDevicesViewModel._id_sort_value for a text: (0, number, text), or
\* (1, sys.maxsize, text) when the text is no hexadecimal number; the
\* number of the second form is the same for all such texts and is written 0
_id_sort_value(value) ==
    LET Keyed(text) ==
            IF text # <<>> /\ \A k \in 1..Len(text) : IsHexChar(text[k])
            THEN [flag |-> 0, number |-> HexValue(text), text |-> text]
            ELSE [flag |-> 1, number |-> 0, text |-> text]
        Stripped(text) == Keyed(IF StartsWith(text, <<"0", "x">>) THEN DropPrefix(text, 2) ELSE text)
    IN  Stripped(Lower(Strip(value)))

\* left < right for two values of _id_sort_value
LessId(left, right) ==
    \/ left.flag < right.flag
    \/ left.flag = right.flag /\ left.number < right.number
    \/ left.flag = right.flag /\ left.number = right.number /\ LessText(left.text, right.text)

\* sort_key(left) < sort_key(right) in _sort_snapshots
LessSnapshot(left, right) ==
    LET Usb(lv, rv, lp, rp) == LessId(lv, rv) \/ (lv = rv /\ LessId(lp, rp))
        Label(snapshot) == IF snapshot.ble_address # <<>> THEN snapshot.ble_address ELSE snapshot.ble_name
    IN  IF left.device_type = "ble" /\ right.device_type = "ble"
        THEN LessText(Label(left), Label(right))
        ELSE IF left.device_type = "ble" THEN FALSE
        ELSE IF right.device_type = "ble" THEN TRUE
        ELSE Usb(_id_sort_value(left.vid), _id_sort_value(right.vid),
                 _id_sort_value(left.pid), _id_sort_value(right.pid))

\* sorted(snapshots, key=sort_key): stable, an element goes behind the
\* elements that are not greater
RECURSIVE _sort_snapshots(_)
_sort_snapshots(snapshots) ==
    LET Insert(sorted, x) ==
            LET behind == {k \in 0..Len(sorted) :
                            \A j \in 1..k : ~LessSnapshot(x, sorted[j])}
                at == SetMax({k \in behind : \A j \in 0..k : j \in behind})
            IN  SubSeq(sorted, 1, at) \o <<x>> \o SubSeq(sorted, at + 1, Len(sorted))
    IN  IF snapshots = <<>> THEN <<>>
        ELSE Insert(_sort_snapshots(SubSeq(snapshots, 1, Len(snapshots) - 1)),
                    snapshots[Len(snapshots)])

HasNoError(snapshot) == snapshot.error = <<>>

\* seq[i] of Python for an index inside the list, counted from the end when
\* it is negative
PyItem(seq, i) == IF i >= 0 THEN seq[i + 1] ELSE seq[Len(seq) + i + 1]

\* Mutant: the index is stored as given.
select_by_index_Unclamped(self, index) ==
    IF self.snapshots = <<>> THEN [self EXCEPT !.selected_index = 0 - 1]
    ELSE [self EXCEPT !.selected_index = index]

\* UsbDevicesViewModel.select_by_index: the view model after the call
select_by_index(self, index) ==
    IF self.snapshots = <<>> THEN [self EXCEPT !.selected_index = 0 - 1]
    ELSE [self EXCEPT !.selected_index =
            SetMax({0, SetMin({index, Len(self.snapshots) - 1})})]

\* UsbDevicesViewModel.select_by_key: the view model after the call
select_by_key(self, wanted) ==
    LET Found(hits) ==
            IF hits = {} THEN [self EXCEPT !.selected_index = 0]
            ELSE [self EXCEPT !.selected_index = SetMin(hits) - 1]
    IN  IF self.snapshots = <<>> THEN [self EXCEPT !.selected_index = 0 - 1]
        ELSE Found({k \in 1..Len(self.snapshots) : Lower(key(self.snapshots[k])) = Lower(wanted)})

\* UsbDevicesViewModel._update_state, com_ports being what
\* ComPortManager.get_com_ports() returns
_update_state(self, snapshots, preserve_selection, com_ports) ==
    LET previous_key ==
            IF /\ preserve_selection
               /\ self.snapshots # <<>>
               /\ self.selected_index < Len(self.snapshots)
            THEN key(PyItem(self.snapshots, self.selected_index))
            ELSE <<>>
        Updated(updated) ==
            IF previous_key # <<>> THEN select_by_key(updated, previous_key)
            ELSE [updated EXCEPT !.selected_index = IF updated.snapshots # <<>> THEN 0 ELSE 0 - 1]
    IN  Updated([self EXCEPT !.snapshots = SelectSeq(_sort_snapshots(snapshots), HasNoError),
                             !.com_ports = com_ports])

\* UsbDevicesViewModel.current_snapshot: the view model after the call and
\* the returned snapshot (<<>> for None)
current_snapshot(self) ==
    LET Clamped(clamped) ==
            [self |-> clamped, value |-> <<PyItem(clamped.snapshots, clamped.selected_index)>>]
    IN  IF self.snapshots = <<>> \/ self.selected_index < 0 THEN [self |-> self, value |-> <<>>]
        ELSE IF self.selected_index >= Len(self.snapshots)
        THEN Clamped([self EXCEPT !.selected_index = Len(self.snapshots) - 1])
        ELSE Clamped(self)

\* UsbDevicesViewModel.__init__
NewViewModel ==
    [snapshots |-> <<>>, com_ports |-> <<>>, selected_index |-> 0, last_error |-> <<>>,
     loaded |-> FALSE]

\* snapshots handed to load_initial: two adapters in two spellings, a BLE
\* device and an error placeholder
ViewModelSnapshots ==
    { UsbDeviceSnapshot(<<"0", "x", "0", "4", "0", "3">>, <<"0", "x", "6", "0", "0", "1">>),
      UsbDeviceSnapshot(<<"0", "x", "a", "b", "c">>, <<"0", "x", "e", "f">>),
      _ble_snapshot(Beacon),
      placeholder(<<"device information does not exist">>) }

ViewModelLists == DistinctSeqs(ViewModelSnapshots, MaxDevices)

\* the indexes handed to select_by_index
ViewModelIndexes == (0 - 2)..(MaxDevices + 1)

\* the keys handed to select_by_key
ViewModelKeys ==
    { <<"0", "x", "0", "4", "0", "3", ":", "0", "x", "6", "0", "0", "1">>,
      <<"0", "X", "A", "B", "C", ":", "0", "x", "E", "F">>,
      <<"b", "l", "e", ":", "a", "a", ":", "0", "1">>,
      <<"-", ":", "-">>,
      <<>> }

\* the serial ports live when the view model updates its state
ViewModelPorts ==
    {ports \in LivePortLists :
        ports = <<>> \/ (Len(ports) = 1 /\ ports[1].serial_number # NoneVal)}

\* what a refresh of the view model can meet: at most one thing attached
ViewModelWorlds ==
    {[w EXCEPT !.ports = ports] :
        w \in {v \in ScanWorlds : Len(v.attached) <= 1}, ports \in ViewModelPorts}

ViewModelInit ==
    /\ svPlatform \in Platforms
    /\ svBleModule \in BOOLEAN
    /\ svStore = MissingStore
    /\ svWorld = NoWorld
    /\ svCall = NoCall
    /\ svRet = NoRet
    /\ svPc = "idle"
    /\ scEnv = NewViewModel
    /\ scCall = NoScanCall
    /\ scRet = NoScanRet
    /\ scPc = "idle"
    /\ HexIdle /\ IdIdle /\ MatchIdle

\* view_model.load_initial(snapshots)
LoadInitial ==
    /\ \E snapshots \in ViewModelLists, ports \in ViewModelPorts :
        scEnv' = [_update_state(scEnv, snapshots, FALSE,
                                get_com_ports([NoWorld EXCEPT !.platform = svPlatform,
                                                              !.ports = ports]))
                    EXCEPT !.loaded = TRUE]
    /\ scCall' = [op |-> "load_initial"]
    /\ scRet' = NoScanRet
    /\ UNCHANGED <<scPc, svcVars>>
    /\ UNCHANGED <<hexVars, idVars, matchVars>>

\* view_model.refresh()
ViewModelRefresh ==
    /\ \E world \in ViewModelWorlds :
        \E r \in {refresh(world, svStore)} :
            /\ svStore' = r.store
            /\ scEnv' = IF r.raised THEN scEnv
                        ELSE _update_state([scEnv EXCEPT !.last_error = r.error], r.snapshots,
                                           TRUE, get_com_ports(world))
            /\ scRet' = [raised |-> r.raised, snapshots |-> <<>>, error |-> <<>>,
                         value |-> <<>>]
    /\ scCall' = [op |-> "refresh"]
    /\ UNCHANGED <<scPc, svPlatform, svBleModule, svWorld, svCall, svRet, svPc>>
    /\ UNCHANGED <<hexVars, idVars, matchVars>>

\* view_model.select_by_index(index)
SelectByIndex ==
    /\ \E index \in ViewModelIndexes :
        scEnv' = select_by_index(scEnv, index)
    /\ scCall' = [op |-> "select_by_index"]
    /\ scRet' = NoScanRet
    /\ UNCHANGED <<scPc, svcVars>>
    /\ UNCHANGED <<hexVars, idVars, matchVars>>

\* view_model.select_by_key(key)
SelectByKey ==
    /\ \E wanted \in ViewModelKeys :
        scEnv' = select_by_key(scEnv, wanted)
    /\ scCall' = [op |-> "select_by_key"]
    /\ scRet' = NoScanRet
    /\ UNCHANGED <<scPc, svcVars>>
    /\ UNCHANGED <<hexVars, idVars, matchVars>>

\* view_model.current_snapshot()
CurrentSnapshot ==
    /\ \E r \in {current_snapshot(scEnv)} :
        /\ scEnv' = r.self
        /\ scRet' = [raised |-> FALSE, snapshots |-> <<>>, error |-> <<>>, value |-> r.value]
    /\ scCall' = [op |-> "current_snapshot"]
    /\ UNCHANGED <<scPc, svcVars>>
    /\ UNCHANGED <<hexVars, idVars, matchVars>>

ViewModelNext ==
    \/ LoadInitial
    \/ ViewModelRefresh
    \/ SelectByIndex
    \/ SelectByKey
    \/ CurrentSnapshot

SpecViewModel == ViewModelInit /\ [][ViewModelNext]_vars

\* C30: once load_initial has been called, after any sequence of refresh,
\* load_initial, select_by_index and select_by_key, selected_index is -1
\* exactly when the list is empty and otherwise 0 <= selected_index <
\* len(snapshots); the list never holds a snapshot with error set, and
\* current_snapshot() returns none exactly when the list is empty.
C30_SelectionInvariant ==
    scEnv.loaded =>
        /\ (scEnv.selected_index = 0 - 1) <=> (scEnv.snapshots = <<>>)
        /\ scEnv.snapshots # <<>> =>
                (0 <= scEnv.selected_index /\ scEnv.selected_index < Len(scEnv.snapshots))
        /\ \A k \in 1..Len(scEnv.snapshots) : scEnv.snapshots[k].error = <<>>
        /\ scCall.op = "current_snapshot" =>
                /\ (scRet.value = <<>>) <=> (scEnv.snapshots = <<>>)
                /\ scEnv.snapshots # <<>> =>
                        scRet.value = <<scEnv.snapshots[scEnv.selected_index + 1]>>

\* an index beyond the list was given: the last snapshot is selected and is
\* the current one
C30_Witness ==
    /\ scEnv.loaded
    /\ Len(scEnv.snapshots) = 2
    /\ scEnv.selected_index = 1
    /\ scCall.op = "current_snapshot"
    /\ scRet.value = <<scEnv.snapshots[2]>>
    /\ scEnv.snapshots[2].device_type = "ble"

\* a refresh kept the selection by key although the list order changed
C30_SelectionKept ==
    /\ scEnv.loaded
    /\ scCall.op = "refresh"
    /\ Len(scEnv.snapshots) = 2
    /\ scEnv.selected_index = 1

\* a list without a snapshot free of error leaves the view model empty
C30_EmptyAfterLoad ==
    /\ scEnv.loaded
    /\ scCall.op = "load_initial"
    /\ scEnv.snapshots = <<>>
    /\ scEnv.selected_index = 0 - 1

=============================================================================
